---- MODULE Spec2Model ----
(***************************************************************************)
(* A model of gpioctrl (src/src/gpioctrl.c): the registry of GPIO chips    *)
(* and lines built from the JSON configuration, the signal-mode and        *)
(* watch-mode event loops, and the software PWM threads.                   *)
(*                                                                         *)
(* The variable server, the JSON document and the GPIO hardware are the    *)
(* environment: the document is an input chosen in Init, the variable      *)
(* server is a store of typed values plus a queue of pending signals, and  *)
(* the hardware is a set of lines with a level, an owner and a queue of    *)
(* edge events.                                                            *)
(***************************************************************************)
EXTENDS Integers, Sequences, FiniteSets, TLC

VARIABLES
    config,          \* the "gpiodef" array of the configuration document
    service,         \* state.service: argv[0], as the components of its path
    gpiowatch,       \* state.gpiowatch: the operating mode
    running,         \* state.running
    pc,              \* position of the primary thread in main()
    ci,              \* index of the chip definition JSON_Iterate is at
    li,              \* index of the line definition being iterated (0: chip not yet parsed)
    chips,           \* the list pFirstGPIOChip..pLastGPIOChip, each with its line list
    monitoredLines,  \* state.monitoredLines: the bulk of lines waited on
    notify,          \* notifications registered with the variable server, per handle
    varval,          \* variable server: value of each variable
    vartype,         \* variable server: stored type of each variable
    sigq,            \* signals queued for the primary thread
    held,            \* gpiod lines requested by this process, with their request type
    busy,            \* hardware lines held by another consumer
    level,           \* level of each hardware line
    evq,             \* edge events queued on each gpiod line
    fired,           \* the event bulk returned by the last edge wait, not yet handled
    pwm,             \* the PWM threads, by the descriptor they were created for
    last,            \* what the handler of the primary thread that has just run did
    termreq,         \* a termination signal (SIGTERM or SIGINT) has been delivered
    freed            \* the chips and descriptors Shutdown has freed, as they were

vars == <<config, service, gpiowatch, running, pc, ci, li, chips, monitoredLines, notify,
          varval, vartype, sigq, held, busy, level, evq, fired, pwm, last, termreq,
          freed>>

(***************************************************************************)
(* Bounds of the model.                                                    *)
(***************************************************************************)
\* chip definitions in a configuration document
MaxChips == 2
\* line definitions in a configuration document, over all its chips
MaxLines == 2
\* signals queued for the primary thread, and edge events queued on one line
MaxPending == 1

(***************************************************************************)
(* Constants of libgpiod v1 and of the variable server, as the code names  *)
(* them.                                                                   *)
(***************************************************************************)
GPIOD_LINE_DIRECTION_INPUT == 1
GPIOD_LINE_DIRECTION_OUTPUT == 2
GPIOD_LINE_REQUEST_DIRECTION_INPUT == 2
GPIOD_LINE_REQUEST_DIRECTION_OUTPUT == 3
GPIOD_LINE_REQUEST_EVENT_FALLING_EDGE == 4
GPIOD_LINE_REQUEST_EVENT_RISING_EDGE == 5
GPIOD_LINE_REQUEST_EVENT_BOTH_EDGES == 6
GPIOD_LINE_EVENT_RISING_EDGE == 1
GPIOD_LINE_EVENT_FALLING_EDGE == 2
GPIOD_LINE_BULK_MAX_LINES == 64
VAR_INVALID == 0
\* microseconds slept per unit of duty cycle
PWMQuantum == 40
\* the largest duty cycle
PWMMax == 255

\* JSON_GetStr returns NULL for an attribute the object does not have
NoAttr == "<null>"
\* a NULL GPIO pointer, as FindGPIO returns it
NoPos == <<0, 0>>

(***************************************************************************)
(* The environment: devices, lines, variables.                             *)
(***************************************************************************)
\* /dev entries that gpiod_chip_open can open
Devices == {"gpiochip0", "gpiochip1"}
\* chip names a document may give ("gpiochip9" is no device)
ChipNames == {"gpiochip0", "gpiochip1", "gpiochip9"}
\* offsets of the lines a chip has
ChipLines == {4, 5}
\* VAR_FindByName: the variables the server knows, and their handles
VarHandle(name) ==
    CASE name = "/HW/GPIO/P4" -> 1
      [] name = "/HW/GPIO/P5" -> 2
      [] OTHER -> VAR_INVALID
Handles == {1, 2}
\* values a 16-bit variable takes in the model
Values == {0, 7, 300}

\* strtoul( line_str, NULL, 0 ): base 0 accepts decimal and 0x-prefixed hex,
\* and yields 0 for a string with no leading digits
strtoul(s) ==
    CASE s = "4" -> 4
      [] s = "5" -> 5
      [] s = "0x5" -> 5
      [] s = "99" -> 99
      [] OTHER -> 0

(***************************************************************************)
(* Configuration documents.                                                *)
(***************************************************************************)
Def(line, var, direction, event, active_state, bias, drive) ==
    [line |-> line, var |-> var, direction |-> direction, event |-> event,
     active_state |-> active_state, bias |-> bias, drive |-> drive]

Directions == {NoAttr, "input", "output", "pwm", "sideways"}
EventAttrs == {NoAttr, "RISING_EDGE", "FALLING_EDGE", "BOTH_EDGES", "LEVEL"}
ActiveStates == {NoAttr, "low", "high", "floating"}
Biases == {NoAttr, "disabled", "pull-down", "pull-up", "strong"}
Drives == {NoAttr, "push-pull", "open-source", "open-drain", "totem"}

\* line definitions every document may repeat
BaseDefs ==
    { Def("4", "/HW/GPIO/P4", "output", NoAttr, "high", NoAttr, NoAttr),
      Def("5", "/HW/GPIO/P5", "input", "BOTH_EDGES", NoAttr, NoAttr, NoAttr) }

\* every direction with every event attribute
DirEvDefs ==
    { Def("4", "/HW/GPIO/P4", d, e, NoAttr, NoAttr, NoAttr) :
        d \in Directions, e \in EventAttrs }

\* unknown or missing variables and lines
VarLineDefs ==
    { Def(l, v, "output", NoAttr, NoAttr, NoAttr, NoAttr) :
        l \in {"4", "0x5", "99", "four", NoAttr},
        v \in {"/HW/GPIO/P4", "/HW/GPIO/NONE", NoAttr} }

\* the electrical attributes: one at a time, and every combination of valid ones
ElecDefs ==
    { Def("4", "/HW/GPIO/P4", "output", NoAttr, a, NoAttr, NoAttr) : a \in ActiveStates }
    \cup { Def("4", "/HW/GPIO/P4", "input", NoAttr, NoAttr, b, NoAttr) : b \in Biases }
    \cup { Def("4", "/HW/GPIO/P4", "output", NoAttr, NoAttr, NoAttr, d) : d \in Drives }
    \cup { Def("4", "/HW/GPIO/P4", "output", NoAttr, a, b, d) :
             a \in {"low", "high"},
             b \in {"disabled", "pull-down", "pull-up"},
             d \in {"push-pull", "open-source", "open-drain"} }
    \cup { Def("4", "/HW/GPIO/P4", "output", "RISING_EDGE", "floating", "pull-up", NoAttr),
           Def("4", "/HW/GPIO/P4", "sideways", "BOTH_EDGES", "low", NoAttr, "open-drain") }

WideDefs == BaseDefs \cup DirEvDefs \cup VarLineDefs \cup ElecDefs

\* sequences over S of length at most n
SeqsUpTo(S, n) == UNION { [1..k -> S] : k \in 0..n }

\* the lines of s that owner assigns to chip i, in the order of s
RECURSIVE LinesOf(_, _, _, _)
LinesOf(s, owner, i, k) ==
    IF k > Len(s) THEN <<>>
    ELSE (IF owner[k] = i THEN <<s[k]>> ELSE <<>>) \o LinesOf(s, owner, i, k + 1)

\* the document of n chips named names, with the lines s split by owner
Document(names, s, owner) ==
    [i \in 1..Len(names) |-> [chip |-> names[i], lines |-> LinesOf(s, owner, i, 1)]]

\* the line sequences of at most MaxLines lines drawn from defs, in which
\* at most one line is not one of base
LineSeqs(defs, base) ==
    { t \in SeqsUpTo(defs, MaxLines) :
        Cardinality({ k \in DOMAIN t : t[k] \notin base }) <= 1 }

\* the chip sequences of a document: at most MaxChips names, each chip once
ChipSeqs ==
    { n \in SeqsUpTo(ChipNames, MaxChips) : \A a, b \in DOMAIN n : a # b => n[a] # n[b] }

\* the ways to split n lines, in order, over k chips
Splits(n, k) ==
    { o \in [1..n -> 1..k] : \A a, b \in 1..n : a <= b => o[a] <= o[b] }

\* the documents with chips named by one of chipseqs and lines from one of
\* lineseqs
Documents(chipseqs, lineseqs) ==
    UNION { { Document(names, t, owner) : owner \in Splits(Len(t), Len(names)) } :
              names \in chipseqs, t \in lineseqs }

(***************************************************************************)
(* The registry: chips, line descriptors and the two lookups.              *)
(***************************************************************************)
\* a GPIO object as calloc leaves it and CreateLine fills it; pLine is the
\* gpiod_line: the chip object it was taken from and its offset.  src is the
\* place of the line definition in the document, issued says whether RequestLine
\* called gpiod_line_request, reqval is the value it passed, rc what the
\* library answered, and notified the notifications SetupNotification asked
\* the variable server for
NewGPIO(pLine, hVar, line_num, name, src) ==
    [pLine |-> pLine, hVar |-> hVar, line_num |-> line_num, name |-> name,
     value |-> 0, direction |-> 0, PWM |-> FALSE, event_type |-> 0,
     request |-> [request_type |-> 0, flags |-> {}],
     src |-> src, issued |-> FALSE, reqval |-> 0, rc |-> "none", notified |-> {}]

\* the positions <<chip, line>> of the descriptors, and the descriptor at one
Positions(cs) ==
    UNION { { <<c, l>> : l \in 1..Len(cs[c].lines) } : c \in DOMAIN cs }
GPIOAt(cs, p) == cs[p[1]].lines[p[2]]

\* a faulty variant of FindGPIOInChip, going on after a match: the last line
\* of chip c, from l on, bound to hVar
RECURSIVE FindGPIOLastInChip(_, _, _, _)
FindGPIOLastInChip(cs, hVar, c, l) ==
    IF l > Len(cs[c].lines) THEN NoPos
    ELSE IF FindGPIOLastInChip(cs, hVar, c, l + 1) # NoPos
         THEN FindGPIOLastInChip(cs, hVar, c, l + 1)
    ELSE IF cs[c].lines[l].hVar = hVar THEN <<c, l>>
    ELSE NoPos

\* FindGPIO's inner loop: the first line of chip c, from l on, bound to hVar
RECURSIVE FindGPIOInChip(_, _, _, _)
FindGPIOInChip(cs, hVar, c, l) ==
    IF l > Len(cs[c].lines) THEN NoPos
    ELSE IF cs[c].lines[l].hVar = hVar THEN <<c, l>>
    ELSE FindGPIOInChip(cs, hVar, c, l + 1)

\* FindGPIO's outer loop, from chip c on
RECURSIVE FindGPIOFrom(_, _, _)
FindGPIOFrom(cs, hVar, c) ==
    IF c > Len(cs) THEN NoPos
    ELSE IF FindGPIOInChip(cs, hVar, c, 1) # NoPos THEN FindGPIOInChip(cs, hVar, c, 1)
    ELSE FindGPIOFrom(cs, hVar, c + 1)

FindGPIO(cs, hVar) ==
    IF hVar # VAR_INVALID THEN FindGPIOFrom(cs, hVar, 1) ELSE NoPos

\* FindVar: the variable of the first descriptor holding pLine
RECURSIVE FindVarInChip(_, _, _, _)
FindVarInChip(cs, pLine, c, l) ==
    IF l > Len(cs[c].lines) THEN VAR_INVALID
    ELSE IF cs[c].lines[l].pLine = pLine THEN cs[c].lines[l].hVar
    ELSE FindVarInChip(cs, pLine, c, l + 1)

RECURSIVE FindVarFrom(_, _, _)
FindVarFrom(cs, pLine, c) ==
    IF c > Len(cs) THEN VAR_INVALID
    ELSE IF \E l \in 1..Len(cs[c].lines) : cs[c].lines[l].pLine = pLine
         THEN FindVarInChip(cs, pLine, c, 1)
    ELSE FindVarFrom(cs, pLine, c + 1)

FindVar(cs, pLine) == FindVarFrom(cs, pLine, 1)

(***************************************************************************)
(* Parsing one line definition.  Each Parse operator yields the updated    *)
(* GPIO object and the result code the C function returns.                 *)
(***************************************************************************)
\* GetVarHandle: the handle of the "var" attribute's variable
GetVarHandle(pNode) ==
    IF pNode.var # NoAttr THEN VarHandle(pNode.var) ELSE VAR_INVALID

\* a faulty variant of CreateLineOK, not looking at the variable
CreateLineAnyVar(pNode) ==
    /\ pNode.line # NoAttr
    /\ strtoul(pNode.line) \in ChipLines

\* CreateLine: whether it returns a GPIO object (the variable is known, the
\* "line" attribute is there and the chip has that line), and the object
CreateLineOK(pNode) ==
    /\ GetVarHandle(pNode) # VAR_INVALID
    /\ pNode.line # NoAttr
    /\ strtoul(pNode.line) \in ChipLines

CreateLine(pNode, c, src) ==
    NewGPIO(<<c, strtoul(pNode.line)>>, GetVarHandle(pNode),
            strtoul(pNode.line), pNode.var, src)

\* GetLineOutputValue: seed value from the variable, for an output
GetLineOutputValue(pGPIO, vval, vtype) ==
    IF pGPIO.hVar # VAR_INVALID /\ pGPIO.direction = GPIOD_LINE_DIRECTION_OUTPUT
       /\ vtype[pGPIO.hVar] = "VARTYPE_UINT16"
    THEN [pGPIO EXCEPT !.value = vval[pGPIO.hVar]]
    ELSE pGPIO

ParseLineDirection(pGPIO, pNode, vval, vtype) ==
    LET direction == IF pNode.direction = NoAttr THEN "input" ELSE pNode.direction
    IN  CASE direction = "input" ->
               [gpio |-> [pGPIO EXCEPT
                            !.direction = GPIOD_LINE_DIRECTION_INPUT,
                            !.request.request_type = GPIOD_LINE_REQUEST_DIRECTION_INPUT],
                result |-> "EOK"]
          [] direction = "output" ->
               [gpio |-> GetLineOutputValue(
                            [pGPIO EXCEPT
                               !.direction = GPIOD_LINE_DIRECTION_OUTPUT,
                               !.request.request_type = GPIOD_LINE_REQUEST_DIRECTION_OUTPUT],
                            vval, vtype),
                result |-> "EOK"]
          [] direction = "pwm" ->
               [gpio |-> GetLineOutputValue(
                            [pGPIO EXCEPT
                               !.PWM = TRUE,
                               !.direction = GPIOD_LINE_DIRECTION_OUTPUT,
                               !.request.request_type = GPIOD_LINE_REQUEST_DIRECTION_OUTPUT],
                            vval, vtype),
                result |-> "EOK"]
          [] OTHER -> [gpio |-> pGPIO, result |-> "ENOTSUP"]

ParseLineActiveState(pGPIO, pNode) ==
    CASE pNode.active_state = NoAttr -> [gpio |-> pGPIO, result |-> "EOK"]
      [] pNode.active_state = "low" ->
           [gpio |-> [pGPIO EXCEPT !.request.flags = @ \cup {"ACTIVE_LOW"}],
            result |-> "EOK"]
      [] pNode.active_state = "high" ->
           [gpio |-> [pGPIO EXCEPT !.request.flags = @ \ {"ACTIVE_LOW"}],
            result |-> "EOK"]
      [] OTHER -> [gpio |-> pGPIO, result |-> "ENOTSUP"]

ParseLineEvent(pGPIO, pNode) ==
    CASE pNode.event = NoAttr ->
           [gpio |-> [pGPIO EXCEPT !.event_type = 0], result |-> "EOK"]
      [] pNode.event = "RISING_EDGE" ->
           [gpio |-> [pGPIO EXCEPT !.event_type = GPIOD_LINE_REQUEST_EVENT_RISING_EDGE],
            result |-> "EOK"]
      [] pNode.event = "FALLING_EDGE" ->
           [gpio |-> [pGPIO EXCEPT !.event_type = GPIOD_LINE_REQUEST_EVENT_FALLING_EDGE],
            result |-> "EOK"]
      [] pNode.event = "BOTH_EDGES" ->
           [gpio |-> [pGPIO EXCEPT !.event_type = GPIOD_LINE_REQUEST_EVENT_BOTH_EDGES],
            result |-> "EOK"]
      [] OTHER -> [gpio |-> [pGPIO EXCEPT !.event_type = 0], result |-> "ENOTSUP"]

ParseLineBias(pGPIO, pNode) ==
    CASE pNode.bias = NoAttr -> [gpio |-> pGPIO, result |-> "EOK"]
      [] pNode.bias = "disabled" ->
           [gpio |-> [pGPIO EXCEPT !.request.flags = @ \cup {"BIAS_DISABLE"}],
            result |-> "EOK"]
      [] pNode.bias = "pull-down" ->
           [gpio |-> [pGPIO EXCEPT !.request.flags = @ \cup {"BIAS_PULL_DOWN"}],
            result |-> "EOK"]
      [] pNode.bias = "pull-up" ->
           [gpio |-> [pGPIO EXCEPT !.request.flags = @ \cup {"BIAS_PULL_UP"}],
            result |-> "EOK"]
      [] OTHER -> [gpio |-> pGPIO, result |-> "ENOTSUP"]

ParseLineDrive(pGPIO, pNode) ==
    CASE pNode.drive = NoAttr -> [gpio |-> pGPIO, result |-> "EOK"]
      [] pNode.drive = "push-pull" ->
           [gpio |-> [pGPIO EXCEPT !.request.flags = @ \ {"OPEN_DRAIN", "OPEN_SOURCE"}],
            result |-> "EOK"]
      [] pNode.drive = "open-source" ->
           [gpio |-> [pGPIO EXCEPT !.request.flags = @ \cup {"OPEN_SOURCE"}],
            result |-> "EOK"]
      [] pNode.drive = "open-drain" ->
           [gpio |-> [pGPIO EXCEPT !.request.flags = @ \cup {"OPEN_DRAIN"}],
            result |-> "EOK"]
      [] OTHER -> [gpio |-> pGPIO, result |-> "ENOTSUP"]

\* ParseLine's five Parse calls in the order it makes them; it drops their results
ParseAttributes(pGPIO, pNode, vval, vtype) ==
    ParseLineDrive(
      ParseLineBias(
        ParseLineEvent(
          ParseLineActiveState(
            ParseLineDirection(pGPIO, pNode, vval, vtype).gpio,
            pNode).gpio,
          pNode).gpio,
        pNode).gpio,
      pNode).gpio

\* a faulty variant of ShouldRequest, requesting in either mode
RequestAlways(watch, event_type) == TRUE

\* RequestLine's decision: whether this instance requests the line
ShouldRequest(watch, event_type) ==
    (watch /\ event_type # 0) \/ (~watch /\ event_type = 0)

\* RequestLine up to the library call: the request structure it fills in
\* (flags reset, an event type overriding the direction) and the value it passes
RequestConfig(pGPIO) ==
    [pGPIO EXCEPT
       !.request.flags = {},
       !.request.request_type = IF pGPIO.event_type # 0 THEN pGPIO.event_type ELSE @]

\* a faulty variant of RequestValue, passing the seed for a PWM line too
RequestSeed(pGPIO) == pGPIO.value

\* the initial value RequestLine passes to gpiod_line_request
RequestValue(pGPIO) == IF pGPIO.PWM THEN 0 ELSE pGPIO.value

\* a faulty variant of SetupNotification, asking in watch mode too
SetupNotificationAnyMode(pGPIO, watch) ==
    IF pGPIO.direction = GPIOD_LINE_DIRECTION_INPUT /\ pGPIO.event_type = 0
    THEN {"NOTIFY_CALC"}
    ELSE IF pGPIO.direction = GPIOD_LINE_DIRECTION_OUTPUT THEN {"NOTIFY_MODIFIED"}
    ELSE {}

\* SetupNotification: the notification asked for the line's variable
SetupNotification(pGPIO, watch) ==
    IF watch THEN {}
    ELSE IF pGPIO.direction = GPIOD_LINE_DIRECTION_INPUT /\ pGPIO.event_type = 0
         THEN {"NOTIFY_CALC"}
    ELSE IF pGPIO.direction = GPIOD_LINE_DIRECTION_OUTPUT THEN {"NOTIFY_MODIFIED"}
    ELSE {}

(***************************************************************************)
(* The hardware, as libgpiod presents it.                                  *)
(***************************************************************************)
\* the hardware line behind a gpiod line
KLine(cs, pLine) == <<cs[pLine[1]].name, pLine[2]>>

RequestTypes ==
    { GPIOD_LINE_REQUEST_DIRECTION_INPUT, GPIOD_LINE_REQUEST_DIRECTION_OUTPUT,
      GPIOD_LINE_REQUEST_EVENT_FALLING_EDGE, GPIOD_LINE_REQUEST_EVENT_RISING_EDGE,
      GPIOD_LINE_REQUEST_EVENT_BOTH_EDGES }

\* gpiod_line_request: EBUSY for a line this process or another consumer
\* holds, EINVAL for a request type that is neither a direction nor an event
gpiod_line_request(cs, hld, bsy, pLine, request) ==
    IF pLine \in DOMAIN hld THEN "EBUSY"
    ELSE IF request.request_type \notin RequestTypes THEN "EINVAL"
    ELSE IF KLine(cs, pLine) \in bsy
            \/ \E q \in DOMAIN hld : KLine(cs, q) = KLine(cs, pLine) THEN "EBUSY"
    ELSE "EOK"

\* the level a line is driven to by a value
Drive(v) == IF v # 0 THEN 1 ELSE 0

(***************************************************************************)
(* The PWM thread of one line: where it is in PWMThread's loop, its local  *)
(* t, and what the cycle it is in has done so far: the value it read at    *)
(* the top, the two sleeps, whether it drove the line high and low,        *)
(* whether the value stayed what it was at the top, and whether the cycle  *)
(* is complete.                                                            *)
(***************************************************************************)
NewCycle(v) ==
    [top |-> v, ton |-> 0, toff |-> 0, hi |-> FALSE, lo |-> FALSE,
     stable |-> TRUE, complete |-> FALSE]

NewThread == [pc |-> "top", cycle |-> NewCycle(0)]

(***************************************************************************)
(* The state main() is in when it starts to iterate the gpiodef array.     *)
(***************************************************************************)
\* the handle of /SYS/GPIOCTRL/INFO
InfoHandle == 3

\* SetupPrintNotifications: asked in signal mode only
SetupPrintNotifications(watch) == IF watch THEN {} ELSE {"NOTIFY_PRINT"}

NoLast == [kind |-> "none", hVar |-> VAR_INVALID, pos |-> NoPos, ops |-> <<>>]

\* the variable stores a run may start with: the type of each variable and
\* the value of the 16-bit ones
Store(t1, v1, t2, v2) ==
    [type |-> (1 :> t1) @@ (2 :> t2) @@ (InfoHandle :> "VARTYPE_STR"),
     val |-> (1 :> v1) @@ (2 :> v2) @@ (InfoHandle :> 0)]

\* the environments binding is explored in: a variable store and the
\* hardware lines another consumer holds
BindEnvs ==
    { [store |-> Store("VARTYPE_UINT16", 7, "VARTYPE_UINT16", 300), busy |-> {}],
      [store |-> Store("VARTYPE_STR", 0, "VARTYPE_UINT16", 0),
       busy |-> { <<"gpiochip0", 5>> }] }

\* a faulty variant of WatchMode, looking at the last component only
WatchModeByBasename(argv0) == argv0[Len(argv0)] = "gpiowatch"

\* main(): the mode is watch mode when argv[0] is, character for character,
\* "gpiowatch"
WatchMode(argv0) == argv0 = <<"gpiowatch">>

InitWith(docs, envs, names) ==
    /\ config \in docs
    /\ service \in names
    /\ gpiowatch = WatchMode(service)
    /\ running = FALSE
    /\ pc = "bind"
    /\ ci = 1
    /\ li = 0
    /\ chips = <<>>
    /\ monitoredLines = <<>>
    /\ notify = [h \in Handles \cup {InfoHandle} |->
                   IF h = InfoHandle THEN SetupPrintNotifications(gpiowatch) ELSE {}]
    /\ \E env \in envs :
         /\ varval = env.store.val
         /\ vartype = env.store.type
         /\ busy = env.busy
    /\ sigq = <<>>
    /\ held = <<>>
    /\ level = [k \in Devices \X ChipLines |-> 0]
    /\ evq = <<>>
    /\ fired = <<>>
    /\ pwm = <<>>
    /\ last = NoLast
    /\ termreq = FALSE
    /\ freed = <<>>

(***************************************************************************)
(* Binding: JSON_Iterate calls ParseChip for each chip definition, and     *)
(* CreateLines has it call ParseLine for each line definition.             *)
(***************************************************************************)
\* the cursor after line l of chip definition c
NextCursor(c, l) ==
    IF l >= Len(config[c].lines) THEN <<c + 1, 0>> ELSE <<c, l + 1>>

\* a faulty variant of ChipOpens, for which every name is a device
ChipAlwaysOpens(chipName) == TRUE

\* CreateChip: whether gpiod_chip_open returns a chip for /dev/<chipName>
ChipOpens(chipName) == chipName \in Devices

\* ParseChip up to the iteration of the lines: CreateChip opens the device
\* and appends the chip; a chip that does not open has its lines skipped,
\* and JSON_Iterate goes on to the next chip definition whatever ParseChip
\* returned
ParseChip ==
    /\ pc = "bind"
    /\ ci <= Len(config)
    /\ li = 0
    /\ IF ChipOpens(config[ci].chip)
       THEN /\ chips' = Append(chips, [name |-> config[ci].chip, lines |-> <<>>])
            /\ ci' = NextCursor(ci, 0)[1]
            /\ li' = NextCursor(ci, 0)[2]
       ELSE /\ chips' = chips
            /\ ci' = ci + 1
            /\ li' = 0
    /\ UNCHANGED <<config, service, gpiowatch, termreq, freed, running, pc, monitoredLines, notify, varval,
                   vartype, sigq, held, busy, level, evq, fired, pwm>>
    /\ last' = NoLast

\* a faulty variant of StartsPWM, starting no thread for a line that was
\* not acquired
StartsPWMIfAcquired(watch, pGPIO) == ~watch /\ pGPIO.PWM /\ pGPIO.rc = "EOK"

\* ParseLine: whether CreatePWM is called for the descriptor
StartsPWM(watch, pGPIO) == ~watch /\ pGPIO.PWM

\* the descriptor ParseLine leaves in the registry for pNode, and what
\* gpiod_line_request answered
BoundLine(pNode, c, src) ==
    LET parsed == ParseAttributes(CreateLine(pNode, c, src), pNode, varval, vartype)
        pGPIO == RequestConfig(parsed)
        request == ShouldRequest(gpiowatch, pGPIO.event_type)
    IN  [pGPIO EXCEPT
           !.issued = request,
           !.reqval = IF request THEN RequestValue(pGPIO) ELSE 0,
           !.rc = IF request
                  THEN gpiod_line_request(chips, held, busy, pGPIO.pLine, pGPIO.request)
                  ELSE "none",
           !.notified = SetupNotification(pGPIO, gpiowatch)]

ParseLine ==
    /\ pc = "bind"
    /\ ci <= Len(config)
    /\ li >= 1
    /\ LET pNode == config[ci].lines[li]
           c == Len(chips)
           pGPIO == BoundLine(pNode, c, <<ci, li>>)
           n == Len(monitoredLines)
       IN  IF CreateLineOK(pNode)
           THEN /\ chips' = [chips EXCEPT ![c].lines = Append(@, pGPIO)]
                /\ held' = IF pGPIO.rc = "EOK"
                           THEN (pGPIO.pLine :> pGPIO.request.request_type) @@ held
                           ELSE held
                /\ evq' = IF pGPIO.rc = "EOK" THEN (pGPIO.pLine :> <<>>) @@ evq ELSE evq
                /\ level' = IF pGPIO.rc = "EOK"
                               /\ pGPIO.request.request_type
                                    = GPIOD_LINE_REQUEST_DIRECTION_OUTPUT
                            THEN [level EXCEPT ![KLine(chips, pGPIO.pLine)] =
                                    Drive(pGPIO.reqval)]
                            ELSE level
                /\ monitoredLines' =
                     IF pGPIO.event_type # 0 /\ n < GPIOD_LINE_BULK_MAX_LINES
                     THEN Append(monitoredLines, pGPIO.pLine)
                     ELSE monitoredLines
                /\ notify' = [notify EXCEPT ![pGPIO.hVar] =
                                @ \cup SetupNotification(pGPIO, gpiowatch)]
                /\ pwm' = IF StartsPWM(gpiowatch, pGPIO)
                          THEN (<<c, Len(chips[c].lines) + 1>> :> NewThread) @@ pwm
                          ELSE pwm
           ELSE UNCHANGED <<chips, held, evq, level, monitoredLines, notify, pwm>>
    /\ ci' = NextCursor(ci, li)[1]
    /\ li' = NextCursor(ci, li)[2]
    /\ UNCHANGED <<config, service, gpiowatch, termreq, freed, running, pc, varval, vartype, sigq, busy,
                   fired>>
    /\ last' = NoLast

\* run(): binding is over, the loop starts
StartRun ==
    /\ pc = "bind"
    /\ ci > Len(config)
    /\ running' = TRUE
    /\ pc' = "loop"
    /\ UNCHANGED <<config, service, gpiowatch, termreq, freed, ci, li, chips, monitoredLines, notify, varval,
                   vartype, sigq, held, busy, level, evq, fired, pwm>>
    /\ last' = NoLast

\* the documents binding is explored on
BindDocs == Documents(ChipSeqs, LineSeqs(WideDefs, BaseDefs))

\* the names the program is started under in the README
BindNames == { <<"gpiowatch">>, <<"gpioctrl">> }

InitBind == InitWith(BindDocs, BindEnvs, BindNames)

NextBind == ParseChip \/ ParseLine \/ StartRun

SpecBind == InitBind /\ [][NextBind]_vars

(***************************************************************************)
(* The running phase.  last records what the handler of the primary       *)
(* thread that has just run did: the calls it made on the hardware and on  *)
(* the variable server, in order.  Any other step clears it.               *)
(***************************************************************************)
Op(op, line, h, val) == [op |-> op, line |-> line, h |-> h, val |-> val]

Handled(kind, hVar, pos, ops) == [kind |-> kind, hVar |-> hVar, pos |-> pos, ops |-> ops]

\* a faulty variant of StoreValue, which also clears the descriptor's PWM flag
StoreValueClearPWM(cs, pos, v) ==
    [cs EXCEPT ![pos[1]].lines[pos[2]].value = v, ![pos[1]].lines[pos[2]].PWM = FALSE]

\* the assignment pGPIO->value = v, for the descriptor at pos of the registry cs
StoreValue(cs, pos, v) == [cs EXCEPT ![pos[1]].lines[pos[2]].value = v]

\* gpiod_line_set_value succeeds on a line this process holds as an output
\* (io: the hardware accepts the write)
SetValueOK(pLine, io) ==
    /\ io
    /\ pLine \in DOMAIN held
    /\ held[pLine] = GPIOD_LINE_REQUEST_DIRECTION_OUTPUT

\* gpiod_line_get_value: the level of a line this process holds, -1 otherwise
gpiod_line_get_value(pLine, io) ==
    IF io /\ pLine \in DOMAIN held THEN level[KLine(chips, pLine)] ELSE -1

\* the PWM threads after the primary thread stored v in the descriptor at pos
AfterStore(pos, v) ==
    [p \in DOMAIN pwm |->
       IF p = pos /\ GPIOAt(chips, pos).value # v
       THEN [pwm[p] EXCEPT !.cycle.stable = FALSE]
       ELSE pwm[p]]

\* a faulty variant of DutyCycle, without the clamp
DutyUnclamped(ui) == ui

\* the duty cycle UpdateOutput stores for a PWM line
DutyCycle(ui) == IF ui <= PWMMax THEN ui ELSE PWMMax

\* a faulty variant of OutputBit, passing the value through
OutputRaw(ui) == ui

\* the value UpdateOutput stores and writes for any other output
OutputBit(ui) == IF ui > 0 THEN 1 ELSE 0

\* a faulty variant of IsUInt16, taking a variable of any type
IsAnyType(type) == TRUE

\* UpdateOutput's test of the type of the variable it has read
IsUInt16(type) == type = "VARTYPE_UINT16"

\* UpdateOutput: got says whether VAR_Get succeeds, io whether the hardware
\* accepts a write
UpdateOutput(hVar, got, io) ==
    LET pos == FindGPIO(chips, hVar)
        pGPIO == GPIOAt(chips, pos)
        ui == varval[hVar]
        duty == DutyCycle(ui)
        bit == OutputBit(ui)
    IN  IF pos = NoPos \/ hVar = VAR_INVALID
        THEN /\ last' = Handled("modified", hVar, NoPos, <<>>)
             /\ UNCHANGED <<chips, level, pwm>>
        ELSE IF pGPIO.direction # GPIOD_LINE_DIRECTION_OUTPUT
        THEN /\ last' = Handled("modified", hVar, pos, <<>>)
             /\ UNCHANGED <<chips, level, pwm>>
        ELSE IF ~got
        THEN /\ last' = Handled("modified", hVar, pos, <<Op("VAR_Get", NoPos, hVar, -1)>>)
             /\ UNCHANGED <<chips, level, pwm>>
        ELSE IF ~IsUInt16(vartype[hVar])
        THEN /\ last' = Handled("modified", hVar, pos, <<Op("VAR_Get", NoPos, hVar, 0)>>)
             /\ UNCHANGED <<chips, level, pwm>>
        ELSE IF pGPIO.PWM
        THEN /\ chips' = StoreValue(chips, pos, duty)
             /\ pwm' = AfterStore(pos, duty)
             /\ last' = Handled("modified", hVar, pos, <<Op("VAR_Get", NoPos, hVar, ui)>>)
             /\ UNCHANGED level
        ELSE /\ chips' = StoreValue(chips, pos, bit)
             /\ pwm' = AfterStore(pos, bit)
             /\ level' = IF SetValueOK(pGPIO.pLine, io)
                         THEN [level EXCEPT ![KLine(chips, pGPIO.pLine)] = bit]
                         ELSE level
             /\ last' = Handled("modified", hVar, pos,
                                <<Op("VAR_Get", NoPos, hVar, ui),
                                  Op("gpiod_line_set_value", pGPIO.pLine, VAR_INVALID, bit)>>)

\* a faulty variant of InputBit, with the levels exchanged
InputInverted(rc) == IF rc > 0 THEN 0 ELSE 1

\* the value UpdateInput gives the variable for the level it read
InputBit(rc) == IF rc > 0 THEN 1 ELSE 0

\* a faulty variant of IsInput, taking a line of any direction
IsAnyDirection(direction) == TRUE

\* UpdateInput's test of the direction of the line it has found
IsInput(direction) == direction = GPIOD_LINE_DIRECTION_INPUT

\* UpdateInput: io says whether the hardware answers the read
UpdateInput(hVar, io) ==
    LET pos == FindGPIO(chips, hVar)
        pGPIO == GPIOAt(chips, pos)
        rc == gpiod_line_get_value(pGPIO.pLine, io)
        bit == InputBit(rc)
    IN  IF pos = NoPos \/ hVar = VAR_INVALID
        THEN /\ last' = Handled("calc", hVar, NoPos, <<>>)
             /\ UNCHANGED varval
        ELSE IF ~IsInput(pGPIO.direction)
        THEN /\ last' = Handled("calc", hVar, pos, <<>>)
             /\ UNCHANGED varval
        ELSE IF rc = -1
        THEN /\ last' = Handled("calc", hVar, pos,
                                <<Op("gpiod_line_get_value", pGPIO.pLine, VAR_INVALID, rc)>>)
             /\ UNCHANGED varval
        ELSE /\ varval' = [varval EXCEPT ![hVar] = bit]
             /\ last' = Handled("calc", hVar, pos,
                                <<Op("gpiod_line_get_value", pGPIO.pLine, VAR_INVALID, rc),
                                  Op("VAR_Set", NoPos, hVar, bit)>>)

\* a faulty variant of PrintLines, leaving out the lines not acquired
RECURSIVE PrintAcquiredLines(_, _)
PrintAcquiredLines(lines, l) ==
    IF l > Len(lines) THEN <<>>
    ELSE (IF lines[l].rc = "EOK"
          THEN <<[line |-> lines[l].line_num, var |-> lines[l].name]>>
          ELSE <<>>) \o PrintAcquiredLines(lines, l + 1)

\* PrintLineInfo for every line of every chip, in list order: the report
RECURSIVE PrintLines(_, _)
PrintLines(lines, l) ==
    IF l > Len(lines) THEN <<>>
    ELSE <<[line |-> lines[l].line_num, var |-> lines[l].name]>> \o PrintLines(lines, l + 1)

RECURSIVE PrintStatusFrom(_, _)
PrintStatusFrom(cs, c) ==
    IF c > Len(cs) THEN <<>>
    ELSE <<[chip |-> cs[c].name, lines |-> PrintLines(cs[c].lines, 1)]>>
         \o PrintStatusFrom(cs, c + 1)

PrintStatus(cs) == PrintStatusFrom(cs, 1)

\* WaitVarSignal: VARSERVER_WaitSignal returns the next queued signal, which
\* is dispatched on its kind
WaitVarSignal ==
    /\ pc = "wait"
    /\ ~gpiowatch
    /\ sigq # <<>>
    /\ sigq' = Tail(sigq)
    /\ pc' = "loop"
    /\ LET sig == Head(sigq).sig
           sigval == Head(sigq).sigval
       IN  CASE sig = "SIG_VAR_MODIFIED" ->
                  /\ \E got \in BOOLEAN, io \in BOOLEAN : UpdateOutput(sigval, got, io)
                  /\ UNCHANGED varval
             [] sig = "SIG_VAR_CALC" ->
                  /\ \E io \in BOOLEAN : UpdateInput(sigval, io)
                  /\ UNCHANGED <<chips, level, pwm>>
             [] sig = "SIG_VAR_PRINT" ->
                  /\ last' = Handled("print", VAR_INVALID, NoPos,
                                     <<Op("PrintStatus", NoPos, VAR_INVALID, 0)>>)
                  /\ UNCHANGED <<chips, level, pwm, varval>>
             [] OTHER ->
                  /\ last' = Handled("unsupported", VAR_INVALID, NoPos, <<>>)
                  /\ UNCHANGED <<chips, level, pwm, varval>>
    /\ UNCHANGED <<config, service, gpiowatch, termreq, freed, running, ci, li, monitoredLines,
                   notify, vartype, held, busy, evq, fired>>

\* a client of the variable server writes a variable the process asked to be
\* told of (v, for a 16-bit variable), and the server signals the process
ClientWrite ==
    /\ pc = "wait"
    /\ ~gpiowatch
    /\ \E h \in Handles, v \in Values :
         /\ vartype[h] # "VARTYPE_UINT16" => v = 0
         /\ "NOTIFY_MODIFIED" \in notify[h]
         /\ Len(sigq) < MaxPending
         /\ varval' = [varval EXCEPT ![h] = v]
         /\ sigq' = Append(sigq, [sig |-> "SIG_VAR_MODIFIED", sigval |-> h])
    /\ UNCHANGED <<config, service, gpiowatch, termreq, freed, running, pc, ci, li, chips, monitoredLines,
                   notify, vartype, held, busy, level, evq, fired, pwm>>
    /\ last' = NoLast

\* a client reads a variable, prints the info variable, or the server sends a
\* signal the process has no handler for
ClientSignal ==
    /\ pc = "wait"
    /\ ~gpiowatch
    /\ Len(sigq) < MaxPending
    /\ \E h \in Handles \cup {InfoHandle},
          sig \in {"SIG_VAR_CALC", "SIG_VAR_PRINT", "SIG_VAR_VALIDATE"} :
         /\ sig = "SIG_VAR_CALC" => "NOTIFY_CALC" \in notify[h]
         /\ sig = "SIG_VAR_PRINT" => "NOTIFY_PRINT" \in notify[h]
         /\ sig = "SIG_VAR_VALIDATE" => h = 1
         /\ sigq' = Append(sigq, [sig |-> sig, sigval |-> h])
    /\ UNCHANGED <<config, service, gpiowatch, termreq, freed, running, pc, ci, li, chips, monitoredLines,
                   notify, varval, vartype, held, busy, level, evq, fired, pwm>>
    /\ last' = NoLast

\* the edge a level change is, and whether a request type reports it
EdgeOf(new) ==
    IF new = 1 THEN GPIOD_LINE_EVENT_RISING_EDGE ELSE GPIOD_LINE_EVENT_FALLING_EDGE

Reports(request_type, edge) ==
    \/ request_type = GPIOD_LINE_REQUEST_EVENT_BOTH_EDGES
    \/ request_type = GPIOD_LINE_REQUEST_EVENT_RISING_EDGE
         /\ edge = GPIOD_LINE_EVENT_RISING_EDGE
    \/ request_type = GPIOD_LINE_REQUEST_EVENT_FALLING_EDGE
         /\ edge = GPIOD_LINE_EVENT_FALLING_EDGE

\* the pin of a line held as an input changes level; an edge the line was
\* requested for is queued on it
PinChange ==
    /\ pc \in {"wait", "events"}
    /\ \E pLine \in DOMAIN held :
         LET new == 1 - level[KLine(chips, pLine)]
         IN  /\ held[pLine] # GPIOD_LINE_REQUEST_DIRECTION_OUTPUT
             /\ level' = [level EXCEPT ![KLine(chips, pLine)] = new]
             /\ IF Reports(held[pLine], EdgeOf(new))
                THEN /\ Len(evq[pLine]) < MaxPending
                     /\ evq' = [evq EXCEPT ![pLine] = Append(@, EdgeOf(new))]
                ELSE evq' = evq
    /\ UNCHANGED <<config, service, gpiowatch, termreq, freed, running, pc, ci, li, chips, monitoredLines,
                   notify, varval, vartype, sigq, held, busy, fired, pwm>>
    /\ last' = NoLast

\* the entries of a bulk whose line has an event queued, in bulk order
RECURSIVE Ready(_, _)
Ready(bulk, k) ==
    IF k > Len(bulk) THEN <<>>
    ELSE (IF evq[bulk[k]] # <<>> THEN <<bulk[k]>> ELSE <<>>) \o Ready(bulk, k + 1)

\* WaitGPIOEvent: gpiod_line_event_wait_bulk fails when a line of the bulk is
\* not requested, and otherwise returns the lines with an event
WaitGPIOEvent ==
    /\ pc = "wait"
    /\ gpiowatch
    /\ IF \E k \in DOMAIN monitoredLines : monitoredLines[k] \notin DOMAIN held
       THEN /\ last' = Handled("wait_error", VAR_INVALID, NoPos, <<>>)
            /\ pc' = "loop"
            /\ UNCHANGED fired
       ELSE /\ Ready(monitoredLines, 1) # <<>>
            /\ fired' = Ready(monitoredLines, 1)
            /\ pc' = "events"
            /\ last' = Handled("wait", VAR_INVALID, NoPos, <<>>)
    /\ UNCHANGED <<config, service, gpiowatch, termreq, freed, running, ci, li, chips, monitoredLines, notify,
                   varval, vartype, sigq, held, busy, level, evq, pwm>>

\* a faulty variant of EventValue, with the edges exchanged
EventValueFalling(event_type) ==
    IF event_type = GPIOD_LINE_EVENT_FALLING_EDGE THEN 1 ELSE 0

\* the value HandleGPIOEvent gives the variable for an event
EventValue(event_type) ==
    IF event_type = GPIOD_LINE_EVENT_RISING_EDGE THEN 1 ELSE 0

\* HandleGPIOEvent for the next line of the event bulk: io says whether
\* gpiod_line_event_read succeeds
HandleGPIOEvent ==
    /\ pc = "events"
    /\ fired # <<>>
    /\ LET pLine == Head(fired)
           hVar == FindVar(chips, pLine)
       IN  \E io \in BOOLEAN :
             IF ~io
             THEN /\ last' = Handled("edge", VAR_INVALID, NoPos,
                                     <<Op("gpiod_line_event_read", pLine, VAR_INVALID, -1)>>)
                  /\ UNCHANGED <<evq, varval>>
             ELSE /\ evq[pLine] # <<>>
                  /\ evq' = [evq EXCEPT ![pLine] = Tail(@)]
                  /\ LET event_type == Head(evq[pLine])
                         val == EventValue(event_type)
                     IN  IF hVar # VAR_INVALID
                         THEN /\ varval' = [varval EXCEPT ![hVar] = val]
                              /\ last' = Handled("edge", hVar, NoPos,
                                   <<Op("gpiod_line_event_read", pLine, VAR_INVALID, event_type),
                                     Op("VAR_Set", NoPos, hVar, val)>>)
                         ELSE /\ varval' = varval
                              /\ last' = Handled("edge", hVar, NoPos,
                                   <<Op("gpiod_line_event_read", pLine, VAR_INVALID, event_type)>>)
    /\ fired' = Tail(fired)
    /\ pc' = IF Tail(fired) = <<>> THEN "loop" ELSE "events"
    /\ UNCHANGED <<config, service, gpiowatch, termreq, freed, running, ci, li, chips, monitoredLines, notify,
                   vartype, sigq, held, busy, level, pwm>>

(***************************************************************************)
(* PWMThread, the loop body of the thread created for the descriptor at p. *)
(* The thread reads pGPIO->value where the C code reads it: at the two     *)
(* limit checks, for the on time and again for the off time.  A step of a  *)
(* thread and the primary thread's test of running touch nothing in        *)
(* common, so a thread's step is taken after the test rather than between  *)
(* a handler's return and the test.                                        *)
(***************************************************************************)
\* a faulty variant of OffTime, sleeping the on time again
OffTimeOfOn(value) == value * PWMQuantum

\* the two sleeps of a cycle, in microseconds
OnTime(value) == value * PWMQuantum

OffTime(value) == (PWMMax - value) * PWMQuantum

\* the memory a thread's pGPIO points to: the descriptor in the registry or,
\* once Shutdown has freed it, what it left behind
Descriptor(p) == IF freed # <<>> THEN GPIOAt(freed, p) ELSE GPIOAt(chips, p)

\* what a read of pGPIO->value may give: the value, or anything once the
\* descriptor is freed
ReadValue(p) ==
    IF freed # <<>> THEN Values \cup {GPIOAt(freed, p).value}
    ELSE {GPIOAt(chips, p).value}

\* the two limit checks at the top of a cycle (no value is ever negative,
\* so the two reads are taken together)
PWMCheck(p) ==
    /\ pc \notin {"loop", "exited"}
    /\ pwm[p].pc = "top"
    /\ \E value \in ReadValue(p) :
         pwm' = [pwm EXCEPT ![p].cycle = [NewCycle(value) EXCEPT !.stable = freed = <<>>],
                            ![p].pc = IF value < 0 THEN "limit_low"
                                      ELSE IF value > PWMMax THEN "limit_high"
                                      ELSE "on"]
    /\ UNCHANGED <<config, service, gpiowatch, termreq, freed, running, pc, ci, li, chips,
                   monitoredLines, notify, varval, vartype, sigq, held, busy, level,
                   evq, fired>>
    /\ last' = NoLast

\* the store of the limit into pGPIO->value
PWMLimit(p) ==
    /\ pc \notin {"loop", "exited"}
    /\ pwm[p].pc \in {"limit_low", "limit_high"}
    /\ LET limit == IF pwm[p].pc = "limit_low" THEN 0 ELSE PWMMax
       IN  /\ IF freed # <<>>
              THEN /\ freed' = StoreValue(freed, p, limit)
                   /\ chips' = chips
              ELSE /\ chips' = StoreValue(chips, p, limit)
                   /\ freed' = freed
           /\ pwm' = [pwm EXCEPT ![p].pc = "on",
                                 ![p].cycle.stable = @ /\ Descriptor(p).value = limit]
    /\ UNCHANGED <<config, service, gpiowatch, termreq, running, pc, ci, li, monitoredLines,
                   notify, varval, vartype, sigq, held, busy, level, evq, fired>>
    /\ last' = NoLast

\* t = value * 40; if positive, the line is driven high and the thread sleeps t
PWMOn(p) ==
    /\ pc \notin {"loop", "exited"}
    /\ pwm[p].pc = "on"
    /\ \E value \in ReadValue(p) :
         LET t == OnTime(value)
         IN  /\ pwm' = [pwm EXCEPT ![p].pc = "off",
                                   ![p].cycle.ton = IF t > 0 THEN t ELSE 0,
                                   ![p].cycle.hi = t > 0]
             /\ \E io \in BOOLEAN :
                  level' = IF t > 0 /\ SetValueOK(Descriptor(p).pLine, io)
                           THEN [level EXCEPT ![KLine(chips, Descriptor(p).pLine)] = 1]
                           ELSE level
    /\ UNCHANGED <<config, service, gpiowatch, termreq, freed, running, pc, ci, li, chips,
                   monitoredLines, notify, varval, vartype, sigq, held, busy, evq,
                   fired>>
    /\ last' = NoLast

\* t = (255 - value) * 40; if positive, the line is driven low and the thread
\* sleeps t; the cycle is over
PWMOff(p) ==
    /\ pc \notin {"loop", "exited"}
    /\ pwm[p].pc = "off"
    /\ \E value \in ReadValue(p) :
         LET t == OffTime(value)
         IN  /\ pwm' = [pwm EXCEPT ![p].pc = "top",
                                   ![p].cycle.toff = IF t > 0 THEN t ELSE 0,
                                   ![p].cycle.lo = t > 0,
                                   ![p].cycle.complete = TRUE]
             /\ \E io \in BOOLEAN :
                  level' = IF t > 0 /\ SetValueOK(Descriptor(p).pLine, io)
                           THEN [level EXCEPT ![KLine(chips, Descriptor(p).pLine)] = 0]
                           ELSE level
    /\ UNCHANGED <<config, service, gpiowatch, termreq, freed, running, pc, ci, li, chips,
                   monitoredLines, notify, varval, vartype, sigq, held, busy, evq,
                   fired>>
    /\ last' = NoLast

PWMThread ==
    \E p \in DOMAIN pwm : PWMCheck(p) \/ PWMLimit(p) \/ PWMOn(p) \/ PWMOff(p)

(***************************************************************************)
(* Termination.  The handler of SIGTERM and SIGINT runs on the primary     *)
(* thread whenever the signal is delivered; run() tests the flag it        *)
(* clears between two waits, and main() shuts down when run() returns.     *)
(***************************************************************************)
\* TerminationHandler: one signal is delivered.  A wait the thread is
\* blocked in returns with EINTR (blocked); a signal delivered after the test
\* of running and before the thread blocks interrupts nothing
TerminationHandler ==
    /\ pc \in {"bind", "loop", "wait", "events"}
    /\ ~termreq
    /\ termreq' = TRUE
    /\ running' = FALSE
    /\ \E blocked \in BOOLEAN :
         pc' = IF pc = "wait" /\ blocked THEN "loop" ELSE pc
    /\ UNCHANGED <<config, service, gpiowatch, freed, ci, li, chips, monitoredLines, notify,
                   varval, vartype, sigq, held, busy, level, evq, fired, pwm>>
    /\ last' = NoLast

\* a faulty variant of WhileRunning, never leaving the loop
WhileAlways(rn, l) == TRUE

\* a faulty variant of WhileRunning, leaving the loop when the wait failed
WhileRunningAndOK(rn, l) == rn /\ l.kind \notin {"unsupported", "wait_error"}

\* run(): the condition of the loop; what the wait returned is not looked at
WhileRunning(rn, l) == rn

\* run(): the test of running at the top of the loop
LoopTest ==
    /\ pc = "loop"
    /\ pc' = IF WhileRunning(running, last) THEN "wait" ELSE "stopping"
    /\ UNCHANGED <<config, service, gpiowatch, termreq, freed, running, ci, li, chips,
                   monitoredLines, notify, varval, vartype, sigq, held, busy, level,
                   evq, fired, pwm>>
    /\ last' = NoLast

\* the calls Shutdown makes for the lines of a chip from l on, in order
RECURSIVE ReleaseLines(_, _)
ReleaseLines(lines, l) ==
    IF l > Len(lines) THEN <<>>
    ELSE <<Op("gpiod_line_release", lines[l].pLine, VAR_INVALID, 0)>>
         \o ReleaseLines(lines, l + 1)

\* a faulty variant of ShutdownFrom, closing a chip before releasing its lines
RECURSIVE ShutdownCloseFirst(_, _)
ShutdownCloseFirst(cs, c) ==
    IF c > Len(cs) THEN <<>>
    ELSE <<Op("gpiod_chip_close", <<c, 0>>, VAR_INVALID, 0)>>
         \o ReleaseLines(cs[c].lines, 1)
         \o ShutdownCloseFirst(cs, c + 1)

\* the calls Shutdown makes from chip c on: the lines of a chip are released
\* and freed, then the chip is closed
RECURSIVE ShutdownFrom(_, _)
ShutdownFrom(cs, c) ==
    IF c > Len(cs) THEN <<>>
    ELSE ReleaseLines(cs[c].lines, 1)
         \o <<Op("gpiod_chip_close", <<c, 0>>, VAR_INVALID, 0)>>
         \o ShutdownFrom(cs, c + 1)

\* Shutdown: every line released and its descriptor freed, every chip closed,
\* the list emptied.  The PWM threads keep their pointers into the freed
\* descriptors
Shutdown ==
    /\ pc = "stopping"
    /\ pc' = "closed"
    /\ last' = Handled("shutdown", VAR_INVALID, NoPos, ShutdownFrom(chips, 1))
    /\ freed' = chips
    /\ chips' = <<>>
    /\ held' = <<>>
    /\ evq' = <<>>
    /\ pwm' = [p \in DOMAIN pwm |-> [pwm[p] EXCEPT !.cycle.stable = FALSE]]
    /\ UNCHANGED <<config, service, gpiowatch, termreq, running, ci, li, monitoredLines, notify,
                   varval, vartype, sigq, busy, level, fired>>

\* main() closes the variable server and returns: the process and its
\* threads end
Exit ==
    /\ pc = "closed"
    /\ pc' = "exited"
    /\ pwm' = <<>>
    /\ UNCHANGED <<config, service, gpiowatch, termreq, freed, running, ci, li, chips,
                   monitoredLines, notify, varval, vartype, sigq, held, busy, level,
                   evq, fired>>
    /\ last' = NoLast

(***************************************************************************)
(* The specifications.  SpecBind explores binding over the wide set of     *)
(* documents; Spec explores the whole run over a narrower one.             *)
(***************************************************************************)
\* the line definitions of the documents Spec runs
RunBase == { Def("5", "/HW/GPIO/P5", "input", "BOTH_EDGES", NoAttr, NoAttr, NoAttr) }

RunDefs ==
    RunBase \cup
    { Def("4", "/HW/GPIO/P4", "output", NoAttr, "high", NoAttr, NoAttr),
      Def("5", "/HW/GPIO/P5", "pwm", NoAttr, NoAttr, NoAttr, NoAttr),
      Def("4", "/HW/GPIO/P4", "input", NoAttr, NoAttr, "pull-up", NoAttr),
      Def("4", "/HW/GPIO/P4", "input", "RISING_EDGE", NoAttr, NoAttr, NoAttr),
      Def("4", "/HW/GPIO/P5", "output", "FALLING_EDGE", "low", NoAttr, NoAttr),
      Def("5", "/HW/GPIO/P4", "pwm", NoAttr, NoAttr, NoAttr, NoAttr),
      Def("4", "/HW/GPIO/P4", "sideways", NoAttr, NoAttr, NoAttr, NoAttr) }

RunEnvs ==
    { [store |-> Store("VARTYPE_UINT16", 0, "VARTYPE_UINT16", 300), busy |-> {}],
      [store |-> Store("VARTYPE_STR", 0, "VARTYPE_UINT16", 7),
       busy |-> { <<"gpiochip0", 5>> }] }

\* the chips of the documents Spec runs: devices only, in one order
DeviceOrder == <<"gpiochip0", "gpiochip1">>

RunChipSeqs ==
    { n \in ChipSeqs :
        /\ Len(n) <= Len(DeviceOrder)
        /\ \A k \in DOMAIN n : n[k] = DeviceOrder[k] }

\* the documents Spec runs: every chip has a line
RunDocs ==
    { d \in Documents(RunChipSeqs, LineSeqs(RunDefs, RunBase)) :
        \A i \in DOMAIN d : d[i].lines # <<>> }

Init == InitWith(RunDocs, RunEnvs, BindNames)

Next ==
    \/ ParseChip
    \/ ParseLine
    \/ StartRun
    \/ WaitVarSignal
    \/ ClientWrite
    \/ ClientSignal
    \/ PinChange
    \/ WaitGPIOEvent
    \/ HandleGPIOEvent
    \/ PWMThread
    \/ TerminationHandler
    \/ LoopTest
    \/ Shutdown
    \/ Exit

Spec == Init /\ [][Next]_vars

\* SpecMode runs the documents of one line under more names: the two of the
\* README, and the watcher's name reached through a path
ModeNames == BindNames \cup { <<".", "gpiowatch">>, <<"usr", "bin", "gpiowatch">> }

ModeDocs == { d \in RunDocs : Len(d) = 1 /\ Len(d[1].lines) = 1 }

InitMode == InitWith(ModeDocs, RunEnvs, ModeNames)

SpecMode == InitMode /\ [][Next]_vars

(***************************************************************************)
(* Properties of the running phase, checked under Spec.  They read last,  *)
(* which holds what the handler that has just run did, and the cycle       *)
(* record of each PWM thread.                                              *)
(***************************************************************************)
\* C1: in signal mode, a 'modified' event for a variable whose line (the one
\* the registry lookup resolves) is a non-PWM output, and whose value was read
\* as a 16-bit unsigned V, makes exactly one gpiod_line_set_value call, on that
\* line, with 1 if V is nonzero and 0 if V is zero; the same level is stored
\* in the descriptor.
C1_ModifiedSetsOutputOnce ==
    LET pGPIO == GPIOAt(chips, last.pos)
        V == varval[last.hVar]
        sets == { k \in DOMAIN last.ops : last.ops[k].op = "gpiod_line_set_value" }
    IN  (/\ ~gpiowatch
         /\ last.kind = "modified"
         /\ last.pos # NoPos
         /\ pGPIO.direction = GPIOD_LINE_DIRECTION_OUTPUT
         /\ ~pGPIO.PWM
         /\ vartype[last.hVar] = "VARTYPE_UINT16"
         /\ \E k \in DOMAIN last.ops :
              last.ops[k].op = "VAR_Get" /\ last.ops[k].val # -1)
        => /\ Cardinality(sets) = 1
           /\ \A k \in sets :
                /\ last.ops[k].line = pGPIO.pLine
                /\ last.ops[k].val = (IF V # 0 THEN 1 ELSE 0)
           /\ pGPIO.value = (IF V # 0 THEN 1 ELSE 0)

\* C1 happens: a value above 1 was written to the variable of an output the
\* process holds, the handler made its call with 1 and the pin is high
C1_Witness ==
    /\ ~gpiowatch
    /\ last.kind = "modified"
    /\ last.pos # NoPos
    /\ ~GPIOAt(chips, last.pos).PWM
    /\ GPIOAt(chips, last.pos).pLine \in DOMAIN held
    /\ varval[last.hVar] > 1
    /\ Len(last.ops) = 2
    /\ last.ops[2].op = "gpiod_line_set_value"
    /\ last.ops[2].val = 1
    /\ level[KLine(chips, GPIOAt(chips, last.pos).pLine)] = 1

\* C2: in signal mode, a 'query' event for a variable whose line is an input
\* without edge subscription makes exactly one gpiod_line_get_value call, on
\* that line; when the call returns a level the variable is set, by one
\* VAR_Set, to 1 for a high level and 0 for a low one.
C2_QueryReadsInputOnce ==
    LET pGPIO == GPIOAt(chips, last.pos)
        reads == { k \in DOMAIN last.ops : last.ops[k].op = "gpiod_line_get_value" }
        writes == { k \in DOMAIN last.ops : last.ops[k].op = "VAR_Set" }
    IN  (/\ ~gpiowatch
         /\ last.kind = "calc"
         /\ last.pos # NoPos
         /\ pGPIO.direction = GPIOD_LINE_DIRECTION_INPUT
         /\ pGPIO.event_type = 0)
        => /\ Cardinality(reads) = 1
           /\ \A k \in reads :
                /\ last.ops[k].line = pGPIO.pLine
                /\ last.ops[k].val # -1 =>
                     /\ last.ops[k].val = level[KLine(chips, pGPIO.pLine)]
                     /\ Cardinality(writes) = 1
                     /\ \A w \in writes :
                          /\ w > k
                          /\ last.ops[w].h = last.hVar
                          /\ last.ops[w].val = (IF last.ops[k].val = 1 THEN 1 ELSE 0)
                     /\ varval[last.hVar] = (IF last.ops[k].val = 1 THEN 1 ELSE 0)

\* C2 happens: the pin of a polled input is high, the variable held another
\* value, a query was handled and the variable is now 1
C2_Witness ==
    /\ ~gpiowatch
    /\ last.kind = "calc"
    /\ last.pos # NoPos
    /\ GPIOAt(chips, last.pos).event_type = 0
    /\ Len(last.ops) = 2
    /\ last.ops[1].op = "gpiod_line_get_value"
    /\ last.ops[1].val = 1
    /\ varval[last.hVar] = 1

\* C3: in watch mode, an edge event read from a line sets the variable the
\* registry gives for that line to 1 if the event is a rising edge and to 0 if
\* it is a falling edge, by one VAR_Set and with no read of the variable or of
\* the line; when one descriptor alone has the line, the variable is that
\* descriptor's.
C3_EdgeSetsVariable ==
    LET pLine == last.ops[1].line
        event_type == last.ops[1].val
        val == IF event_type = GPIOD_LINE_EVENT_RISING_EDGE THEN 1 ELSE 0
        hVar == FindVar(chips, pLine)
    IN  (/\ gpiowatch
         /\ last.kind = "edge"
         /\ last.ops[1].val # -1)
        => /\ event_type \in {GPIOD_LINE_EVENT_RISING_EDGE, GPIOD_LINE_EVENT_FALLING_EDGE}
           /\ hVar # VAR_INVALID
           /\ Len(last.ops) = 2
           /\ last.ops[2] = Op("VAR_Set", NoPos, hVar, val)
           /\ varval[hVar] = val
           /\ \A p \in Positions(chips) :
                (/\ GPIOAt(chips, p).pLine = pLine
                 /\ \A q \in Positions(chips) :
                      GPIOAt(chips, q).pLine = pLine => q = p)
                => /\ GPIOAt(chips, p).event_type # 0
                   /\ GPIOAt(chips, p).hVar = hVar

\* C3 happens: a falling edge was read from an edge-subscribed line and its
\* variable, which was not 0 before, is 0
C3_Witness ==
    /\ gpiowatch
    /\ last.kind = "edge"
    /\ Len(last.ops) = 2
    /\ last.ops[1].val = GPIOD_LINE_EVENT_FALLING_EDGE
    /\ last.ops[2].op = "VAR_Set"
    /\ varval[last.hVar] = 0
    /\ level[KLine(chips, last.ops[1].line)] = 0

\* C4: for an input line with an event definition that the watch-mode
\* instance holds, once an event has been handled and no pin change is left to
\* process (no event queued on any line, none left in the bulk), the variable
\* equals the pin level.
C4_VariableFollowsPin ==
    \A p \in Positions(chips) :
       LET pGPIO == GPIOAt(chips, p)
       IN  (/\ gpiowatch
            /\ pc = "loop"
            /\ last.kind = "edge"
            /\ last.ops[1].val # -1
            /\ last.ops[1].line = pGPIO.pLine
            /\ pGPIO.direction = GPIOD_LINE_DIRECTION_INPUT
            /\ pGPIO.event_type # 0
            /\ pGPIO.rc = "EOK"
            /\ fired = <<>>
            /\ \A q \in DOMAIN evq : evq[q] = <<>>)
           => varval[pGPIO.hVar] = level[KLine(chips, pGPIO.pLine)]

\* C5: a cycle of a PWM thread during which the line's value stayed the D in
\* 0..255 read at its top slept D quanta after driving the line high and
\* 255 - D quanta after driving it low; it did not drive the line high when
\* D = 0 and did not drive it low when D = 255.
C5_DutyCycle ==
    \A p \in DOMAIN pwm :
       LET cycle == pwm[p].cycle
           D == cycle.top
       IN  (cycle.complete /\ cycle.stable /\ D \in 0..PWMMax)
           => /\ cycle.ton = D * PWMQuantum
              /\ cycle.toff = (PWMMax - D) * PWMQuantum
              /\ cycle.hi <=> D > 0
              /\ cycle.lo <=> D < PWMMax

\* C5 happens: a thread completed a cycle at a duty cycle strictly between
\* the ends, driving the line high and then low
C5_Witness ==
    \E p \in DOMAIN pwm :
       /\ pwm[p].cycle.complete
       /\ pwm[p].cycle.stable
       /\ pwm[p].cycle.top = 7
       /\ pwm[p].cycle.hi
       /\ pwm[p].cycle.lo

\* C6: a 'modified' event for a variable whose line is a PWM line, and whose
\* value was read as a 16-bit unsigned V, stores min(V, 255) in the descriptor
\* and makes no gpiod_line_set_value call.
C6_ModifiedStoresDuty ==
    LET pGPIO == GPIOAt(chips, last.pos)
        V == varval[last.hVar]
    IN  (/\ last.kind = "modified"
         /\ last.pos # NoPos
         /\ pGPIO.PWM
         /\ vartype[last.hVar] = "VARTYPE_UINT16"
         /\ \E k \in DOMAIN last.ops :
              last.ops[k].op = "VAR_Get" /\ last.ops[k].val # -1)
        => /\ pGPIO.value = (IF V < PWMMax THEN V ELSE PWMMax)
           /\ \A k \in DOMAIN last.ops : last.ops[k].op # "gpiod_line_set_value"

\* C6 happens: 300 was written to the variable of a PWM line and 255 stored
C6_Witness ==
    /\ last.kind = "modified"
    /\ last.pos # NoPos
    /\ GPIOAt(chips, last.pos).PWM
    /\ Len(last.ops) = 1
    /\ last.ops[1].val = 300
    /\ GPIOAt(chips, last.pos).value = PWMMax

(***************************************************************************)
(* Properties of binding, checked under SpecBind.  The line definition a   *)
(* descriptor was made from is the one at its src in the document.         *)
(***************************************************************************)
\* C7: when binding is over, no descriptor of the registry comes from a line
\* definition with an unrecognized direction, and every line definition of an
\* opened chip that names a known variable, an existing line and a recognized
\* direction has its descriptor.
C7_MalformedLineNotBound ==
    pc = "loop" =>
       /\ \A p \in Positions(chips) :
            LET pNode == config[GPIOAt(chips, p).src[1]].lines[GPIOAt(chips, p).src[2]]
            IN  pNode.direction \in {NoAttr, "input", "output", "pwm"}
       /\ \A i \in DOMAIN config : \A l \in DOMAIN config[i].lines :
            (/\ config[i].chip \in Devices
             /\ CreateLineOK(config[i].lines[l])
             /\ config[i].lines[l].direction \in {NoAttr, "input", "output", "pwm"})
            => \E p \in Positions(chips) : GPIOAt(chips, p).src = <<i, l>>

\* C8: no gpiod_line_request call is made for a descriptor whose line
\* definition has an unrecognized direction or an unrecognized active_state.
C8_RejectedLineNotRequested ==
    \A p \in Positions(chips) :
       LET pGPIO == GPIOAt(chips, p)
           pNode == config[pGPIO.src[1]].lines[pGPIO.src[2]]
       IN  (\/ pNode.direction \notin {NoAttr, "input", "output", "pwm"}
            \/ pNode.active_state \notin {NoAttr, "low", "high"})
           => ~pGPIO.issued

\* C9: the request structure passed to gpiod_line_request for a line carries
\* the flags of its definition: ACTIVE_LOW for active_state "low", the bias
\* flag for bias "disabled", "pull-up" or "pull-down", the drive flag for drive
\* "open-drain" or "open-source", and no other flag.
C9_RequestCarriesFlags ==
    \A p \in Positions(chips) :
       LET pGPIO == GPIOAt(chips, p)
           pNode == config[pGPIO.src[1]].lines[pGPIO.src[2]]
           flags ==
             (IF pNode.active_state = "low" THEN {"ACTIVE_LOW"} ELSE {})
             \cup (IF pNode.bias = "disabled" THEN {"BIAS_DISABLE"} ELSE {})
             \cup (IF pNode.bias = "pull-up" THEN {"BIAS_PULL_UP"} ELSE {})
             \cup (IF pNode.bias = "pull-down" THEN {"BIAS_PULL_DOWN"} ELSE {})
             \cup (IF pNode.drive = "open-drain" THEN {"OPEN_DRAIN"} ELSE {})
             \cup (IF pNode.drive = "open-source" THEN {"OPEN_SOURCE"} ELSE {})
       IN  pGPIO.issued => pGPIO.request.flags = flags

\* C10: gpiod_line_request is called for a descriptor exactly when its line
\* definition's having an edge subscription agrees with the instance being in
\* watch mode: for a subscribed line in watch mode only, for any other line in
\* signal mode only; so of the two instances exactly one requests it.
C10_RequestMatchesMode ==
    \A p \in Positions(chips) :
       LET pGPIO == GPIOAt(chips, p)
           pNode == config[pGPIO.src[1]].lines[pGPIO.src[2]]
           subscribed == pNode.event \in {"RISING_EDGE", "FALLING_EDGE", "BOTH_EDGES"}
       IN  /\ pGPIO.issued <=> (gpiowatch <=> subscribed)
           /\ ShouldRequest(TRUE, pGPIO.event_type)
                # ShouldRequest(FALSE, pGPIO.event_type)

\* C10 happens: a watch-mode instance has bound a subscribed line, which it
\* requested, and an output line, which it left alone
C10_Witness ==
    /\ gpiowatch
    /\ pc = "loop"
    /\ \E p, q \in Positions(chips) :
         /\ GPIOAt(chips, p).event_type # 0
         /\ GPIOAt(chips, p).issued
         /\ GPIOAt(chips, p).rc = "EOK"
         /\ GPIOAt(chips, q).event_type = 0
         /\ GPIOAt(chips, q).direction = GPIOD_LINE_DIRECTION_OUTPUT
         /\ ~GPIOAt(chips, q).issued

\* C11 as stated: every descriptor has its notification, a 'query' one for
\* an input without edge subscription, a 'modified' one for an output or pwm
\* line, none for an edge-subscribed input.
C11_EveryLineNotified ==
    \A p \in Positions(chips) :
       LET pGPIO == GPIOAt(chips, p)
           pNode == config[pGPIO.src[1]].lines[pGPIO.src[2]]
           subscribed == pNode.event \in {"RISING_EDGE", "FALLING_EDGE", "BOTH_EDGES"}
       IN  /\ (pNode.direction \in {NoAttr, "input"} /\ ~subscribed)
                => pGPIO.notified = {"NOTIFY_CALC"}
           /\ pNode.direction \in {"output", "pwm"}
                => pGPIO.notified = {"NOTIFY_MODIFIED"}
           /\ (pNode.direction \in {NoAttr, "input"} /\ subscribed)
                => pGPIO.notified = {}

\* C11, amended: a signal-mode instance asks for a 'query' notification for
\* every input descriptor without edge subscription, for a 'modified' one for
\* every output or pwm descriptor, and for none for an edge-subscribed input
\* or a line of unrecognized direction, and the server has registered what
\* was asked; a watch-mode instance asks for no notification on any line.
C11_SignalModeNotified ==
    \A p \in Positions(chips) :
       LET pGPIO == GPIOAt(chips, p)
           pNode == config[pGPIO.src[1]].lines[pGPIO.src[2]]
           subscribed == pNode.event \in {"RISING_EDGE", "FALLING_EDGE", "BOTH_EDGES"}
       IN  /\ gpiowatch => pGPIO.notified = {}
           /\ ~gpiowatch =>
                /\ pGPIO.notified =
                     (IF pNode.direction \in {NoAttr, "input"} /\ ~subscribed
                      THEN {"NOTIFY_CALC"}
                      ELSE IF pNode.direction \in {"output", "pwm"}
                      THEN {"NOTIFY_MODIFIED"}
                      ELSE {})
                /\ pGPIO.notified \subseteq notify[pGPIO.hVar]

\* C11 happens: a signal-mode instance has bound a polled input, an output
\* and nothing else, with a 'query' and a 'modified' notification
C11_Witness ==
    /\ ~gpiowatch
    /\ pc = "loop"
    /\ \E p, q \in Positions(chips) :
         /\ GPIOAt(chips, p).direction = GPIOD_LINE_DIRECTION_INPUT
         /\ GPIOAt(chips, p).notified = {"NOTIFY_CALC"}
         /\ "NOTIFY_CALC" \in notify[GPIOAt(chips, p).hVar]
         /\ GPIOAt(chips, q).direction = GPIOD_LINE_DIRECTION_OUTPUT
         /\ GPIOAt(chips, q).notified = {"NOTIFY_MODIFIED"}
         /\ "NOTIFY_MODIFIED" \in notify[GPIOAt(chips, q).hVar]

\* C12 as stated: the report a signal-mode instance prints once binding is
\* over lists the opened chips in definition order, within each the lines in
\* definition order, and exactly the lines that were bound and acquired.
C12_ReportListsAcquiredLines ==
    (pc = "loop" /\ ~gpiowatch) =>
       LET report == PrintStatus(chips)
           opened == SelectSeq(config, LAMBDA d : d.chip \in Devices)
       IN  /\ Len(report) = Len(opened)
           /\ \A i \in DOMAIN report :
                LET acquired ==
                      SelectSeq(chips[i].lines, LAMBDA g : g.rc = "EOK")
                IN  /\ report[i].chip = opened[i].chip
                    /\ Len(report[i].lines) = Len(acquired)
                    /\ \A l \in DOMAIN report[i].lines :
                         report[i].lines[l] =
                           [line |-> acquired[l].line_num, var |-> acquired[l].name]

\* C12, amended: the report lists the opened chips in definition order and,
\* within each, one entry for every line definition that got a descriptor
\* (known variable, line the chip has), in definition order, with the line
\* number and the variable name of the definition, whether or not the line
\* was acquired.
C12_ReportListsRegistry ==
    (pc = "loop" /\ ~gpiowatch) =>
       LET report == PrintStatus(chips)
           opened == SelectSeq(config, LAMBDA d : d.chip \in Devices)
       IN  /\ Len(report) = Len(opened)
           /\ \A i \in DOMAIN report :
                LET created == SelectSeq(opened[i].lines, CreateLineOK)
                IN  /\ report[i].chip = opened[i].chip
                    /\ Len(report[i].lines) = Len(created)
                    /\ Len(report[i].lines) = Len(chips[i].lines)
                    /\ \A l \in DOMAIN report[i].lines :
                         /\ report[i].lines[l] =
                              [line |-> strtoul(created[l].line), var |-> created[l].var]
                         /\ chips[i].lines[l].src[2] \in DOMAIN opened[i].lines
                         /\ opened[i].lines[chips[i].lines[l].src[2]] = created[l]

\* C12 happens: the document has a chip that does not open, with a line,
\* before a chip that opens, whose line was asked for and refused; the report
\* has the second chip only, with that line
C12_Witness ==
    /\ pc = "loop"
    /\ ~gpiowatch
    /\ Len(config) = 2
    /\ config[1].chip \notin Devices
    /\ Len(config[1].lines) = 1
    /\ Len(PrintStatus(chips)) = 1
    /\ Len(PrintStatus(chips)[1].lines) = 1
    /\ chips[1].lines[1].rc = "EBUSY"

\* C13: at every point of binding the registry holds exactly the chip
\* definitions processed so far whose device opened, in definition order, and
\* every descriptor comes from a line definition of the chip it hangs on: a
\* chip definition whose device does not open adds no chip and no line.  When
\* binding is over every chip definition has been processed: each one that
\* opens is in the registry with a descriptor for each of its line
\* definitions that names a known variable and a line the chip has.
C13_UnopenedChipSkipped ==
    LET done == IF pc = "bind" /\ li = 0 THEN ci - 1
                ELSE IF pc = "bind" THEN ci ELSE Len(config)
        opened == SelectSeq(SubSeq(config, 1, done), LAMBDA d : d.chip \in Devices)
    IN  /\ Len(chips) = Len(opened)
        /\ \A c \in DOMAIN chips : chips[c].name = opened[c].chip
        /\ \A p \in Positions(chips) :
             LET src == GPIOAt(chips, p).src
             IN  /\ config[src[1]].chip = chips[p[1]].name
                 /\ config[src[1]].chip \in Devices
        /\ pc = "loop" =>
             \A i \in DOMAIN config : \A l \in DOMAIN config[i].lines :
                (config[i].chip \in Devices /\ CreateLineOK(config[i].lines[l]))
                => \E p \in Positions(chips) : GPIOAt(chips, p).src = <<i, l>>

\* C13 happens: the first chip definition names no device and has a line that
\* would bind; binding is over and the registry holds the second chip alone,
\* with its line
C13_Witness ==
    /\ pc = "loop"
    /\ Len(config) = 2
    /\ config[1].chip \notin Devices
    /\ Len(config[1].lines) = 1
    /\ CreateLineOK(config[1].lines[1])
    /\ Len(chips) = 1
    /\ chips[1].name = config[2].chip
    /\ Len(chips[1].lines) = 1
    /\ chips[1].lines[1].src = <<2, 1>>

\* C14: a line definition whose variable is missing or unknown, or whose
\* line is missing or is no line of the chip, has no descriptor; every
\* notification registered for a line's variable was asked for by a
\* descriptor and every line the process holds is the line of a descriptor
\* whose request succeeded, so such a definition registers and requests
\* nothing; and when binding is over every other line definition of an opened
\* chip has its descriptor, those after such a definition included.
C14_UnresolvedLineSkipped ==
    LET unresolved(pNode) ==
          \/ pNode.var = NoAttr
          \/ VarHandle(pNode.var) = VAR_INVALID
          \/ pNode.line = NoAttr
          \/ strtoul(pNode.line) \notin ChipLines
        lines == { GPIOAt(chips, p) : p \in Positions(chips) }
    IN  /\ \A g \in lines : ~unresolved(config[g.src[1]].lines[g.src[2]])
        /\ \A h \in Handles : notify[h] = UNION { g.notified : g \in { x \in lines : x.hVar = h } }
        /\ DOMAIN held = { g.pLine : g \in { x \in lines : x.rc = "EOK" } }
        /\ pc = "loop" =>
             \A i \in DOMAIN config : \A l \in DOMAIN config[i].lines :
                (config[i].chip \in Devices /\ ~unresolved(config[i].lines[l]))
                => \E g \in lines : g.src = <<i, l>>

\* C14 happens: a chip definition has a line that cannot be resolved before
\* one that can; binding is over and the registry holds the second alone
C14_Witness ==
    /\ pc = "loop"
    /\ Len(chips) = 1
    /\ Len(chips[1].lines) = 1
    /\ chips[1].lines[1].src[2] = 2
    /\ LET pNode == config[chips[1].lines[1].src[1]].lines[1]
       IN  \/ VarHandle(pNode.var) = VAR_INVALID
           \/ strtoul(pNode.line) \notin ChipLines

C16_OnlyTerminationStops ==
    /\ [](pc # "bind" /\ ~termreq => running /\ pc \in {"loop", "wait", "events"})
    /\ [][pc = "loop" /\ running /\ pc' # "loop" => pc' = "wait"]_vars

\* the signal-mode instance has just met a signal it does not support, or a
\* read of the variable that failed, and is back at the top of the loop
C16_Witness ==
    /\ pc = "loop"
    /\ running
    /\ ~termreq
    /\ \/ last.kind = "unsupported"
       \/ last.kind = "modified" /\ last.ops = <<Op("VAR_Get", NoPos, last.hVar, -1)>>

\* C17: the calls Shutdown has just made are one gpiod_line_release for
\* every descriptor the registry held, on that descriptor's line, and one
\* gpiod_chip_close for every chip, nothing else; every release of a line of
\* a chip comes before the close of that chip; and the registry is empty and
\* no line is held any more.
C17_ShutdownReleasesAll ==
    last.kind = "shutdown" =>
       LET ops == last.ops
           closes(c) == { i \in DOMAIN ops : /\ ops[i].op = "gpiod_chip_close"
                                             /\ ops[i].line = <<c, 0>> }
           releases(pLine) == { i \in DOMAIN ops : /\ ops[i].op = "gpiod_line_release"
                                                   /\ ops[i].line = pLine }
           holders(c, pLine) == { l \in DOMAIN freed[c].lines :
                                    freed[c].lines[l].pLine = pLine }
       IN  /\ \A c \in DOMAIN freed :
                /\ Cardinality(closes(c)) = 1
                /\ \A l \in DOMAIN freed[c].lines :
                      LET pLine == freed[c].lines[l].pLine
                      IN  /\ Cardinality(releases(pLine)) = Cardinality(holders(c, pLine))
                          /\ \A i \in releases(pLine), j \in closes(c) : i < j
           /\ Len(ops) = Len(freed) + Cardinality(Positions(freed))
           /\ chips = <<>>
           /\ held = <<>>

\* Shutdown has just run on a registry of two chips, with a line held
C17_Witness ==
    /\ last.kind = "shutdown"
    /\ Len(freed) = 2
    /\ \A c \in DOMAIN freed : freed[c].lines # <<>>
    /\ \E p \in Positions(freed) : GPIOAt(freed, p).rc = "EOK"

\* C18: state.gpiowatch is set exactly when the program was started under
\* the name "gpiowatch" and no step changes it; a watch-mode run only ever
\* comes out of the edge-event wait and a signal-mode run only out of the
\* variable-signal wait.
C18_ModeFixedAtStartup ==
    /\ [](gpiowatch <=> service = <<"gpiowatch">>)
    /\ [][gpiowatch' = gpiowatch /\ service' = service]_vars
    /\ [](last.kind \in {"modified", "calc", "print", "unsupported"} => ~gpiowatch)
    /\ [](last.kind \in {"wait", "wait_error", "edge"} => gpiowatch)

\* the program started as ./gpiowatch runs in signal mode and has just
\* handled a signal of the variable server
C18_Witness ==
    /\ service = <<".", "gpiowatch">>
    /\ ~gpiowatch
    /\ last.kind \in {"modified", "calc", "print", "unsupported"}

(***************************************************************************)
(* Properties of the two lookups, checked on every registry of Spec.       *)
(***************************************************************************)
\* p comes before q in the order of the scan: chips in list order, and the
\* lines of a chip in list order
Before(p, q) == p[1] < q[1] \/ (p[1] = q[1] /\ p[2] <= q[2])

\* the result of FindGPIO for hVar is the first descriptor bound to hVar, or
\* none
FirstMatch(pos, hVar) ==
    LET matches == { p \in Positions(chips) : GPIOAt(chips, p).hVar = hVar }
    IN  IF hVar = VAR_INVALID \/ matches = {}
        THEN pos = NoPos
        ELSE pos \in matches /\ \A q \in matches : Before(pos, q)

\* C19: on every registry, FindGPIO of a variable handle gives the
\* descriptor bound to that handle that comes first in chip-then-line order,
\* and gives none when no descriptor is bound to it or the handle is
\* VAR_INVALID; and that is the descriptor UpdateOutput and UpdateInput have
\* just worked on.
C19_FindGPIOFirstMatch ==
    /\ \A hVar \in Handles \cup {VAR_INVALID} : FirstMatch(FindGPIO(chips, hVar), hVar)
    /\ last.kind \in {"modified", "calc"} => FirstMatch(last.pos, last.hVar)

\* a handler has just looked up a variable that two descriptors are bound
\* to and got the first, while the other variable is bound to none
C19_Witness ==
    /\ last.kind \in {"modified", "calc"}
    /\ \E q \in Positions(chips) :
         /\ q # last.pos
         /\ GPIOAt(chips, q).hVar = last.hVar
         /\ Before(last.pos, q)
    /\ \E hVar \in Handles : FindGPIO(chips, hVar) = NoPos

\* C20: for every descriptor L of every registry, FindVar of L's line gives
\* L's variable handle and FindGPIO of L's variable handle gives L.
C20_LookupBidirectional ==
    \A p \in Positions(chips) :
       LET L == GPIOAt(chips, p)
       IN  /\ FindVar(chips, L.pLine) = L.hVar
           /\ FindGPIO(chips, L.hVar) = p

(***************************************************************************)
(* Properties of the PWM threads, checked under Spec.                      *)
(***************************************************************************)
\* the thread of the descriptor at p takes a step: it reads the descriptor,
\* and drives the line or stores into the descriptor
PWMStep(p) ==
    /\ p \in DOMAIN pwm
    /\ p \in DOMAIN pwm'
    /\ pwm'[p].pc # pwm[p].pc

\* C21: once Shutdown has released the lines and freed the descriptors, no
\* PWM thread takes a step, that is, none reads its descriptor or drives its
\* line any more.
C21_NoPWMAfterShutdown ==
    [][pc = "closed" => \A p \in DOMAIN pwm : ~PWMStep(p)]_vars

\* C22: in the running phase, every change of the value field of a PWM
\* line's descriptor is made by a step of that line's PWM thread, and every
\* change of the value field of any other descriptor by the primary thread's
\* UpdateOutput on that descriptor.
C22_OneWriterPerValue ==
    [][(pc # "bind" /\ Positions(chips') = Positions(chips)) =>
         \A p \in Positions(chips) :
            GPIOAt(chips', p).value # GPIOAt(chips, p).value =>
               IF GPIOAt(chips, p).PWM
               THEN PWMStep(p)
               ELSE last'.kind = "modified" /\ last'.pos = p]_vars

\* C23: every cycle a PWM thread has completed while its descriptor was
\* alive slept, on and off together, exactly 255 quanta, whether or not the
\* value changed during the cycle.
C23_CycleIsOnePeriod ==
    \A p \in DOMAIN pwm :
       (freed = <<>> /\ pwm[p].cycle.complete) =>
          pwm[p].cycle.ton + pwm[p].cycle.toff = PWMMax * PWMQuantum

(***************************************************************************)
(* Properties of termination.  SpecLive adds to Spec that the primary      *)
(* thread, when it is not blocked in a wait, goes on running.              *)
(***************************************************************************)
SpecLive ==
    Spec /\ WF_vars(LoopTest) /\ WF_vars(HandleGPIOEvent) /\ WF_vars(Shutdown)

\* the kinds of last a handler of the loop leaves
HandlerKinds == {"modified", "calc", "print", "unsupported", "wait", "wait_error", "edge"}

\* C24: once the running flag has been cleared with the loop running, the
\* flag stays cleared and the primary thread enters no further wait: it
\* finishes the wake it is in, or the one wake of the wait it is in, and the
\* next test at the top of the loop leaves the loop, after which Shutdown
\* runs.  The loop is never left with the flag set, and once it is left no
\* handler of the loop runs any more.
C24_StopsAfterOneWake ==
    /\ [][(pc # "bind" /\ ~running) => ~running']_vars
    /\ [][(pc' = "wait" /\ pc # "wait") => running]_vars
    /\ [][(pc = "loop" /\ ~running /\ pc' # "loop") => pc' = "stopping"]_vars
    /\ [](pc \in {"stopping", "closed", "exited"} => ~running)
    /\ [][(pc \in {"stopping", "closed", "exited"}) => last'.kind \notin HandlerKinds]_vars
    /\ (pc \in {"loop", "events"} /\ ~running) ~> (pc = "closed")

\* the flag was cleared during a wake or a wait, and the primary thread has
\* completed that one wake and is at the test that leaves the loop
C24_Witness ==
    /\ pc = "loop"
    /\ termreq
    /\ ~running
    /\ last.kind \in {"modified", "calc", "print", "edge"}

(***************************************************************************)
(* Properties of the edge-wait set and of the threads binding starts,      *)
(* checked under SpecBind.                                                 *)
(***************************************************************************)
\* the gpiod lines in state.monitoredLines
Monitored == { monitoredLines[k] : k \in DOMAIN monitoredLines }

\* C25: a gpiod line is in the edge-wait set exactly when a descriptor with
\* an edge subscription holds it and this process's request for it
\* succeeded; so the set is empty in signal mode and has no line whose
\* request failed.
C25_MonitoredIffAcquiredEdge ==
    /\ Monitored = { GPIOAt(chips, p).pLine :
                       p \in { q \in Positions(chips) :
                                 /\ GPIOAt(chips, q).event_type # 0
                                 /\ GPIOAt(chips, q).rc = "EOK" } }
    /\ ~gpiowatch => monitoredLines = <<>>

\* SpecFull binds documents of one chip whose first GPIOD_LINE_BULK_MAX_LINES
\* line definitions are the edge input of RunBase, followed by up to MaxLines
\* more: the edge-wait set is full when these are bound
FullPrefix ==
    [k \in 1..GPIOD_LINE_BULK_MAX_LINES |-> CHOOSE d \in RunBase : TRUE]

FullDocs ==
    { <<[chip |-> "gpiochip0", lines |-> FullPrefix \o t]>> :
        t \in SeqsUpTo(RunDefs, MaxLines) }

InitFull == InitWith(FullDocs, RunEnvs, BindNames)

SpecFull == InitFull /\ [][NextBind]_vars

\* C26: the edge-wait set never holds more than GPIOD_LINE_BULK_MAX_LINES
\* lines, and no descriptor with an edge subscription is left in the registry
\* with its line acquired and not in the set: a line that did not fit was
\* dropped.
C26_FullSetDropsLine ==
    /\ Len(monitoredLines) <= GPIOD_LINE_BULK_MAX_LINES
    /\ \A p \in Positions(chips) :
          (GPIOAt(chips, p).event_type # 0 /\ GPIOAt(chips, p).rc = "EOK")
             => GPIOAt(chips, p).pLine \in Monitored

\* the descriptors made from a line definition whose direction is "pwm"
PWMLines ==
    { p \in Positions(chips) :
        config[GPIOAt(chips, p).src[1]].lines[GPIOAt(chips, p).src[2]].direction = "pwm" }

C28_PlainValueIsBit ==
    pc # "bind" =>
       \A p \in Positions(chips) :
          ~GPIOAt(chips, p).PWM => GPIOAt(chips, p).value \in {0, 1}

\* C29: once binding is over, in either mode, the value field of every PWM
\* line's descriptor is in 0..255.
C29_PWMValueInRange ==
    pc # "bind" =>
       \A p \in Positions(chips) :
          GPIOAt(chips, p).PWM => GPIOAt(chips, p).value \in 0..PWMMax

\* C30: no two descriptors of the registry hold the same gpiod line, and
\* Shutdown has released no gpiod line twice.
C30_HandleOwnedOnce ==
    /\ \A p, q \in Positions(chips) :
          p # q => GPIOAt(chips, p).pLine # GPIOAt(chips, q).pLine
    /\ last.kind = "shutdown" =>
          \A i, j \in DOMAIN last.ops :
             (/\ i # j
              /\ last.ops[i].op = "gpiod_line_release"
              /\ last.ops[j].op = "gpiod_line_release")
                => last.ops[i].line # last.ops[j].line

(***************************************************************************)
(* Properties of the handlers' error paths and of what they leave alone,   *)
(* checked under Spec.                                                     *)
(***************************************************************************)
\* the calls of last' that read or write a hardware line
HardwareOps(l) ==
    { i \in DOMAIN l.ops :
        l.ops[i].op \in {"gpiod_line_set_value", "gpiod_line_get_value"} }

\* C31: a step that handles a modified signal for the variable of an output
\* line, and in which VAR_Get fails or the variable is not a 16-bit unsigned
\* one, writes no hardware line and leaves every descriptor, its value
\* field included, and every level as they were.
C31_UnreadableLeavesOutput ==
    [][(/\ last'.kind = "modified"
        /\ last'.pos # NoPos
        /\ GPIOAt(chips, last'.pos).direction = GPIOD_LINE_DIRECTION_OUTPUT
        /\ \/ last'.ops = <<Op("VAR_Get", NoPos, last'.hVar, -1)>>
           \/ vartype[last'.hVar] # "VARTYPE_UINT16")
         => /\ HardwareOps(last') = {}
            /\ chips' = chips
            /\ level' = level]_vars

\* a modified signal for an acquired output whose variable is a string has
\* just been handled
C31_Witness ==
    /\ last.kind = "modified"
    /\ last.pos # NoPos
    /\ GPIOAt(chips, last.pos).direction = GPIOD_LINE_DIRECTION_OUTPUT
    /\ GPIOAt(chips, last.pos).rc = "EOK"
    /\ vartype[last.hVar] = "VARTYPE_STR"
    /\ last.ops = <<Op("VAR_Get", NoPos, last.hVar, 0)>>

(***************************************************************************)
(* SpecStray runs the signal-mode instance on documents without PWM lines, *)
(* with any two lines in a document, and has the instance also receive     *)
(* signals it asked no notification for: a process may be sent a signal    *)
(* with any value by any process allowed to signal it.                     *)
(***************************************************************************)
StraySignal ==
    /\ pc = "wait"
    /\ ~gpiowatch
    /\ Len(sigq) < MaxPending
    /\ \E h \in Handles \cup {VAR_INVALID}, sig \in {"SIG_VAR_MODIFIED", "SIG_VAR_CALC"} :
         /\ h \in Handles =>
              (IF sig = "SIG_VAR_CALC" THEN "NOTIFY_CALC" ELSE "NOTIFY_MODIFIED")
                 \notin notify[h]
         /\ sigq' = Append(sigq, [sig |-> sig, sigval |-> h])
    /\ UNCHANGED <<config, service, gpiowatch, termreq, freed, running, pc, ci, li, chips,
                   monitoredLines, notify, varval, vartype, held, busy, level, evq,
                   fired, pwm>>
    /\ last' = NoLast

StrayDefs ==
    { d \in RunDefs : d.direction # "pwm" } \cup
    { Def("5", "/HW/GPIO/P4", "output", NoAttr, NoAttr, NoAttr, NoAttr) }

StrayDocs ==
    { <<[chip |-> "gpiochip0", lines |-> t]>> : t \in SeqsUpTo(StrayDefs, MaxLines) }

InitStray == InitWith(StrayDocs, RunEnvs, { <<"gpioctrl">> })

NextStray ==
    \/ ParseChip
    \/ ParseLine
    \/ StartRun
    \/ LoopTest
    \/ WaitVarSignal
    \/ ClientWrite
    \/ ClientSignal
    \/ StraySignal
    \/ PinChange

SpecStray == InitStray /\ [][NextStray]_vars

\* C32: a step that handles a modified signal for a variable whose line is
\* not an output, a calc signal for a variable whose line is not an input,
\* or either signal for a variable no descriptor is bound to (the invalid
\* handle included) makes no call on the hardware or on the variable server
\* and leaves the registry, the levels and the variables as they were.
C32_MismatchChangesNothing ==
    [][(\/ /\ last'.kind = "modified"
           /\ \/ last'.pos = NoPos
              \/ GPIOAt(chips, last'.pos).direction # GPIOD_LINE_DIRECTION_OUTPUT
        \/ /\ last'.kind = "calc"
           /\ \/ last'.pos = NoPos
              \/ GPIOAt(chips, last'.pos).direction # GPIOD_LINE_DIRECTION_INPUT)
         => /\ last'.ops = <<>>
            /\ chips' = chips
            /\ level' = level
            /\ varval' = varval]_vars

\* a calc signal for a variable whose line is an acquired output has just
\* been handled
C32_Witness ==
    /\ last.kind = "calc"
    /\ last.pos # NoPos
    /\ GPIOAt(chips, last.pos).direction = GPIOD_LINE_DIRECTION_OUTPUT
    /\ GPIOAt(chips, last.pos).rc = "EOK"

\* C33: in watch mode the lines one wake reports are handled once each: the
\* lines still to be handled in a wake are pairwise different, so that no
\* line is handed to HandleGPIOEvent twice for one firing.
C33_EachFiredLineOnce ==
    \A i, j \in DOMAIN fired : i # j => fired[i] # fired[j]

\* the positions of run()'s loop: between the end of binding and Shutdown
Synchronizing == {"loop", "wait", "events"}

\* the registry with every value field blanked
WithoutValues(cs) ==
    [c \in DOMAIN cs |->
       [cs[c] EXCEPT !.lines = [l \in DOMAIN cs[c].lines |->
                                  [cs[c].lines[l] EXCEPT !.value = 0]]]]

\* C34: a step taken inside the loop (by a handler, a lookup, a status
\* report or a PWM thread) leaves the chips, the lines, their order and every
\* descriptor field but value as they were, and the edge-wait set too; and
\* the step that handles a print request changes no descriptor at all, no
\* level, no variable and no thread, and makes no hardware set or get.
C34_RegistryFrozenButValue ==
    [][/\ (pc \in Synchronizing /\ pc' \in Synchronizing)
            => /\ WithoutValues(chips') = WithoutValues(chips)
               /\ monitoredLines' = monitoredLines
       /\ (last'.kind = "print")
            => /\ chips' = chips
               /\ level' = level
               /\ varval' = varval
               /\ pwm' = pwm
               /\ held' = held
               /\ HardwareOps(last') = {}]_vars

\* a modified signal has just stored a new value in a descriptor, inside the
\* loop, in a registry of two descriptors
C34_Witness ==
    /\ pc = "loop"
    /\ last.kind = "modified"
    /\ last.pos # NoPos
    /\ Cardinality(Positions(chips)) = 2
    /\ GPIOAt(chips, last.pos).value # GPIOAt(chips, last.pos).reqval

\* the descriptors other than the one at p that are bound to the variable of
\* the descriptor at p
SameVariable(p) ==
    { q \in Positions(chips) : q # p /\ GPIOAt(chips, q).hVar = GPIOAt(chips, p).hVar }

\* C35 as stated: a modified or calc signal for a variable bound to several
\* lines is handled on the line bound last, and every hardware call of the
\* handler is on that line.
C35_LastBoundWins ==
    (last.kind \in {"modified", "calc"} /\ last.pos # NoPos)
        => /\ \A q \in SameVariable(last.pos) : Before(q, last.pos)
           /\ \A i \in HardwareOps(last) :
                last.ops[i].line = GPIOAt(chips, last.pos).pLine

\* C35 amended: a modified or calc signal for a variable bound to several
\* lines is handled on the line bound first (the first in chip-then-line
\* order of the registry, which CreateChip and CreateLine keep in binding
\* order), and every hardware call of the handler is on that line.
C35_FirstBoundWins ==
    (last.kind \in {"modified", "calc"} /\ last.pos # NoPos)
        => /\ \A q \in SameVariable(last.pos) : Before(last.pos, q)
           /\ \A i \in HardwareOps(last) :
                last.ops[i].line = GPIOAt(chips, last.pos).pLine

\* a signal for a variable bound to two lines has just been handled with a
\* hardware call on the line of the first
C35_Witness ==
    /\ last.kind \in {"modified", "calc"}
    /\ last.pos # NoPos
    /\ SameVariable(last.pos) # {}
    /\ HardwareOps(last) # {}
    /\ \A q \in SameVariable(last.pos) :
         GPIOAt(chips, q).pLine # GPIOAt(chips, last.pos).pLine

\* C36: a termination request delivered at any moment after the handler is
\* installed, binding included, is not lost: in the loop the running flag
\* is clear whenever a request has been delivered, and from the test at the
\* top of the loop or the handling of a wake the primary thread then goes on
\* to leave the loop and complete Shutdown.
C36_RequestNeverLost ==
    /\ []((termreq /\ pc \in Synchronizing) => ~running)
    /\ (termreq /\ pc \in {"loop", "events"}) ~> (pc = "closed")

\* C37: every gpiod_line_set_value and gpiod_line_get_value a handler of the
\* primary thread has just made is on a line this process holds by a
\* successful request, and so is every line a PWM thread drives while the
\* loop runs.
C37_HardwareOnlyOnAcquired ==
    /\ [](\A i \in HardwareOps(last) : last.ops[i].line \in DOMAIN held)
    /\ [][\A p \in DOMAIN pwm :
            (/\ pc \in Synchronizing
             /\ PWMStep(p)
             /\ \/ pwm[p].pc = "on" /\ pwm'[p].cycle.hi
                \/ pwm[p].pc = "off" /\ pwm'[p].cycle.lo)
              => GPIOAt(chips, p).pLine \in DOMAIN held]_vars

\* the descriptors of the signal-mode instance that are plain outputs whose
\* request succeeded and whose variable is a 16-bit one
AcquiredOutputs ==
    { p \in Positions(chips) :
        /\ ~gpiowatch
        /\ GPIOAt(chips, p).direction = GPIOD_LINE_DIRECTION_OUTPUT
        /\ ~GPIOAt(chips, p).PWM
        /\ GPIOAt(chips, p).rc = "EOK"
        /\ vartype[GPIOAt(chips, p).hVar] = "VARTYPE_UINT16" }

\* a modified signal for the variable hVar waits to be handled
PendingModified(hVar) ==
    \E k \in DOMAIN sigq : sigq[k] = [sig |-> "SIG_VAR_MODIFIED", sigval |-> hVar]

\* with no modified signal pending for its variable, the level of the line
\* of the descriptor at p is 1 if the variable is not zero and 0 if it is
Follows(p) ==
    ~PendingModified(GPIOAt(chips, p).hVar)
        => level[KLine(chips, GPIOAt(chips, p).pLine)]
             = (IF varval[GPIOAt(chips, p).hVar] # 0 THEN 1 ELSE 0)

\* the step has handled a modified signal for hVar and the read of the
\* variable failed, or a write to the hardware did not take effect
FailedUpdate(hVar) ==
    /\ last'.kind = "modified"
    /\ last'.hVar = hVar
    /\ \/ \E i \in DOMAIN last'.ops :
            last'.ops[i].op = "VAR_Get" /\ last'.ops[i].val = -1
       \/ \E i \in HardwareOps(last') :
            level'[KLine(chips, last'.ops[i].line)] # last'.ops[i].val

\* C38: in signal mode every acquired plain output line follows its
\* variable: when the loop starts, and after every step of the loop that
\* found it so, unless the step handled a modified signal for the variable
\* and its read or its hardware write failed, the level of the line is 1 if
\* the variable is not zero and 0 if it is, whenever no modified signal for
\* the variable is pending.
C38_OutputFollowsVariable ==
    /\ [][(pc = "bind" /\ pc' = "loop")
            => \A p \in AcquiredOutputs : Follows(p)']_vars
    /\ [][(pc \in Synchronizing /\ pc' \in Synchronizing)
            => \A p \in AcquiredOutputs :
                 (Follows(p) /\ ~FailedUpdate(GPIOAt(chips, p).hVar)) => Follows(p)']_vars

\* C39: a duty cycle held by a PWM descriptor is kept until the next
\* modified signal for its variable is handled: while the loop runs, every
\* step other than the handling of a modified signal on the descriptor
\* leaves a value within 0..255 as it is (a seed above 255 is the only value
\* the thread may replace).
C39_StoredDutyKept ==
    [][(pc \in Synchronizing /\ pc' \in Synchronizing)
         => \A p \in Positions(chips) :
              (/\ GPIOAt(chips, p).PWM
               /\ GPIOAt(chips, p).value \in 0..PWMMax
               /\ ~(last'.kind = "modified" /\ last'.pos = p))
                => GPIOAt(chips', p).value = GPIOAt(chips, p).value]_vars

\* the longest sleep of a PWM thread: 255 quanta, in microseconds
MaxSleep == PWMMax * PWMQuantum

\* C40: while its descriptor is alive, every duration a PWM thread computes
\* is between 0 and 255 quanta: the on time of the value it reads after the
\* limit checks and the off time of the value it reads next, whatever the
\* seed of the descriptor and whatever the primary thread stored in between;
\* and that duration is what the thread sleeps.
C40_SleepWithinPeriod ==
    [][\A p \in DOMAIN pwm :
         (freed = <<>> /\ PWMStep(p)) =>
            /\ pwm[p].pc = "on" =>
                 /\ OnTime(GPIOAt(chips, p).value) \in 0..MaxSleep
                 /\ pwm'[p].cycle.ton = OnTime(GPIOAt(chips, p).value)
            /\ pwm[p].pc = "off" =>
                 /\ OffTime(GPIOAt(chips, p).value) \in 0..MaxSleep
                 /\ pwm'[p].cycle.toff = OffTime(GPIOAt(chips, p).value)]_vars

\* a thread whose descriptor was seeded with 300 has slept the on time of a
\* cycle, 255 quanta, and is about to compute the off time
C40_Witness ==
    \E p \in DOMAIN pwm :
       /\ freed = <<>>
       /\ pwm[p].pc = "off"
       /\ pwm[p].cycle.top = 300
       /\ pwm[p].cycle.ton = MaxSleep

====
